---- MODULE Spec2Model ----
(***************************************************************************)
(* The SMP price history store (scripts/smp-update.py) and the statistics  *)
(* the report generator derives from it (scripts/generate-dossier.py).     *)
(*                                                                         *)
(* Prices are Python floats (IEEE-754 binary64).  The history file holds   *)
(* them as decimal text; a price is kept in the state as the decimal it is *)
(* written as, in units of 0.0001 (2180 is the text 0.2180), and becomes a *)
(* binary64 value (Float) wherever the code does arithmetic on it.  json   *)
(* writes repr(float), the shortest decimal that parses back to the same   *)
(* float, so the decimal and the float determine each other.               *)
(***************************************************************************)
EXTENDS Integers, Sequences, FiniteSets, TLC

(***************************************************************************)
(* Natural numbers of any size, as little-endian sequences of 15-bit limbs *)
(* without high zero limbs (TLC's integers are 32 bits wide; a binary64    *)
(* significand has 53 bits).  The limb width is a choice of the model: no  *)
(* result depends on it.                                                   *)
(***************************************************************************)
LimbBits == 15
LimbBase == 2 ^ LimbBits

RECURSIVE BNorm(_)
BNorm(a) ==
    IF a = <<>> THEN <<>>
    ELSE IF a[Len(a)] = 0 THEN BNorm(SubSeq(a, 1, Len(a) - 1))
    ELSE a

BFromInt(n) ==
    BNorm(<<n % LimbBase, (n \div LimbBase) % LimbBase, (n \div LimbBase) \div LimbBase>>)

BLimb(a, i) == IF i >= 1 /\ i <= Len(a) THEN a[i] ELSE 0

\* Long loops are taken as two halves, the second on the result of the
\* first, so that their evaluation does not nest once per step; the state s
\* of a loop is looked at before the halves are taken, which evaluates it.

\* Long loops are taken as two halves, the second on the result of the
\* first, so that their evaluation does not nest once per step; the state s
\* of a loop is looked at before the halves are taken, which evaluates it.

\* a + b limb by limb: s = <<the limbs so far, the carry>>
BAddStep(s, a, b) ==
    <<Append(s[1], (BLimb(a, Len(s[1]) + 1) + BLimb(b, Len(s[1]) + 1) + s[2]) % LimbBase),
      (BLimb(a, Len(s[1]) + 1) + BLimb(b, Len(s[1]) + 1) + s[2]) \div LimbBase>>

RECURSIVE BAddSteps(_, _, _, _)
BAddSteps(s, a, b, n) ==
    IF n = 0 \/ Len(s) = 0 THEN s
    ELSE IF n = 1 THEN BAddStep(s, a, b)
    ELSE BAddSteps(BAddSteps(s, a, b, n \div 2), a, b, n - (n \div 2))

BCarryOut(s) == IF s[2] = 0 THEN s[1] ELSE Append(s[1], s[2])

BAdd(a, b) ==
    BNorm(BCarryOut(BAddSteps(<<<<>>, 0>>, a, b, IF Len(a) > Len(b) THEN Len(a) ELSE Len(b))))

RECURSIVE IntBitLen(_)
IntBitLen(n) == IF n = 0 THEN 0 ELSE 1 + IntBitLen(n \div 2)

\* number of significant bits of a
BLen(a) == IF a = <<>> THEN 0 ELSE LimbBits * (Len(a) - 1) + IntBitLen(a[Len(a)])

\* bit k of a (bit 0 is the lowest)
BBit(a, k) == (BLimb(a, (k \div LimbBits) + 1) \div (2 ^ (k % LimbBits))) % 2

\* a * 2^k
BShl(a, k) ==
    LET q == k \div LimbBits
        r == k % LimbBits
        n == Len(a) + q + 1
    IN  IF a = <<>> THEN <<>>
        ELSE BNorm([i \in 1..n |->
                 IF i <= q THEN 0
                 ELSE ((BLimb(a, i - q) % (2 ^ (LimbBits - r))) * (2 ^ r))
                      + (BLimb(a, i - q - 1) \div (2 ^ (LimbBits - r)))])

\* floor(a / 2^k)
BShr(a, k) ==
    LET q == k \div LimbBits
        r == k % LimbBits
        n == Len(a) - q
    IN  IF n <= 0 THEN <<>>
        ELSE BNorm([i \in 1..n |->
                 (BLimb(a, i + q) \div (2 ^ r))
                 + ((BLimb(a, i + q + 1) % (2 ^ r)) * (2 ^ (LimbBits - r)))])

\* a mod 2^k is not zero
BLowNonzero(a, k) ==
    \E i \in 1..Len(a) :
        \/ i <= k \div LimbBits /\ a[i] # 0
        \/ i = (k \div LimbBits) + 1 /\ a[i] % (2 ^ (k % LimbBits)) # 0

\* -1, 0, 1 as a < b, a = b, a > b
RECURSIVE BCmpFrom(_, _, _)
BCmpFrom(a, b, i) ==
    IF i = 0 THEN 0
    ELSE IF a[i] < b[i] THEN -1
    ELSE IF a[i] > b[i] THEN 1
    ELSE BCmpFrom(a, b, i - 1)

BCmp(a, b) ==
    IF Len(a) < Len(b) THEN -1
    ELSE IF Len(a) > Len(b) THEN 1
    ELSE BCmpFrom(a, b, Len(a))

\* a divided by a small n (0 < n < 2^15), high limb first: <<quotient, remainder>>
RECURSIVE BDivFrom(_, _, _, _)
BDivFrom(a, n, i, rem) ==
    IF i = 0 THEN <<<<>>, rem>>
    ELSE LET cur  == rem * LimbBase + a[i]
             rest == BDivFrom(a, n, i - 1, cur % n)
         IN  <<Append(rest[1], cur \div n), rest[2]>>

BDivSmall(a, n) ==
    LET r == BDivFrom(a, n, Len(a), 0)
    IN  <<BNorm(r[1]), r[2]>>

(***************************************************************************)
(* Python floats: binary64, round to nearest, ties to even.  A number is   *)
(* [k |-> "num", hi, lo, e] with value (hi * 2^27 + lo) * 2^e, where       *)
(* hi * 2^27 + lo is the 53-bit significand (hi has 26 bits, lo 27), or    *)
(* hi = lo = 0 for 0.0; [k |-> "nan", ...] is NaN.  Only values >= 0 occur *)
(* (a price, a sum of prices, a mean); none is subnormal or overflows.     *)
(***************************************************************************)
SigBits == 53
LoBits == (SigBits + 1) \div 2
HiBits == SigBits - LoBits

FNum(hi, lo, e) == [k |-> "num", hi |-> hi, lo |-> lo, e |-> e]
FZero == FNum(0, 0, 0)
FNaN == [k |-> "nan", hi |-> 0, lo |-> 0, e |-> 0]

RECURSIVE BToInt(_, _)
BToInt(a, i) == IF i > Len(a) THEN 0 ELSE a[i] + LimbBase * BToInt(a, i + 1)

RECURSIVE BLowBits(_, _)
BLowBits(a, k) ==
    IF k <= LimbBits THEN BLimb(a, 1) % (2 ^ k)
    ELSE BLimb(a, 1) + LimbBase * BLowBits(SubSeq(a, 2, Len(a)), k - LimbBits)

\* the 53-bit significand m at exponent e
FPack(m, e) == FNum(BToInt(BShr(m, LoBits), 1), BLowBits(m, LoBits), e)

\* the limbs of hi * 2^LoBits + lo (LimbBits < LoBits < 2 * LimbBits)
Significand(x) ==
    BNorm(<<x.lo % LimbBase,
            (x.lo \div LimbBase)
                + (x.hi % (2 ^ (2 * LimbBits - LoBits))) * (2 ^ (LoBits - LimbBits)),
            (x.hi \div (2 ^ (2 * LimbBits - LoBits))) % LimbBase,
            x.hi \div (2 ^ (3 * LimbBits - LoBits))>>)

\* q at exponent e, q of 53 bits or, after a carry out of the rounding, 2^53
FPackCarry(q, e) ==
    IF BLen(q) > SigBits THEN FPack(BShr(q, 1), e + 1) ELSE FPack(q, e)

\* n with its d low bits rounded away
RoundOff(n, d, sticky) ==
    IF BBit(n, d - 1) = 1 /\ (BLowNonzero(n, d - 1) \/ sticky \/ BBit(n, d) = 1)
    THEN BAdd(BShr(n, d), <<1>>)
    ELSE BShr(n, d)

FRoundLen(n, e, sticky, d) ==
    IF d <= 0 THEN FPack(BShl(n, 0 - d), e + d)
    ELSE FPackCarry(RoundOff(n, d, sticky), e + d)

\* the float nearest to n * 2^e, plus a positive amount below 2^e when sticky
FRound(n, e, sticky) ==
    IF n = <<>> THEN FZero ELSE FRoundLen(n, e, sticky, BLen(n) - SigBits)

FInt(n) == FRound(BFromInt(n), 0, FALSE)

FRoundQuotient(qr, e) == FRound(qr[1], e, qr[2] # 0)

\* x / n for an integer 0 < n < 2^15 (the divisor float(n) is exact)
FDivInt(x, n) ==
    IF x.k = "nan" THEN FNaN
    ELSE IF x.hi = 0 THEN FZero
    ELSE FRoundQuotient(BDivSmall(BShl(Significand(x), LimbBits + 3), n),
                        x.e - (LimbBits + 3))

(***************************************************************************)
(* a + b for a.e >= b.e > 0.  The sum is formed with three more bits below *)
(* the significand of a (guard, round, and a sticky bit for what b loses   *)
(* when it is shifted down to a's exponent), brought back to 53 bits and   *)
(* rounded.  The wide sum is hi * 2^30 + lo.                                *)
(***************************************************************************)
WideBits == LoBits + 3

\* lo with its lowest bit set when bits were lost
Sticky(lo, lost) == IF lost /\ lo % 2 = 0 THEN lo + 1 ELSE lo

\* the low part of (b.hi * 2^30 + b.lo * 8) shifted down by s, with the sticky bit
AlignLo(b, s) ==
    IF s = 0 THEN b.lo * 8
    ELSE IF s < WideBits
    THEN Sticky(((b.lo * 8) \div (2 ^ s)) + (b.hi % (2 ^ s)) * (2 ^ (WideBits - s)),
                (b.lo * 8) % (2 ^ s) # 0)
    ELSE IF s - WideBits < HiBits
    THEN Sticky(b.hi \div (2 ^ (s - WideBits)),
                b.lo # 0 \/ b.hi % (2 ^ (s - WideBits)) # 0)
    ELSE 1

\* its high part
AlignHi(b, s) == IF s < WideBits THEN b.hi \div (2 ^ s) ELSE 0

\* the 53 bits hi * 2^27 + lo, lo possibly 2^27 after the rounding
FCarry(hi, lo, e) ==
    IF hi + lo \div (2 ^ LoBits) >= 2 ^ HiBits
    THEN FNum((hi + lo \div (2 ^ LoBits)) \div 2, 0, e + 1)
    ELSE FNum(hi + lo \div (2 ^ LoBits), lo % (2 ^ LoBits), e)

\* the wide sum below 2^56 rounded to 53 bits: its three low bits go
FRoundWide(hi, lo, e) ==
    IF lo % 8 > 4 \/ (lo % 8 = 4 /\ (lo \div 8) % 2 = 1)
    THEN FCarry(hi, (lo \div 8) + 1, e)
    ELSE FCarry(hi, lo \div 8, e)

\* a wide sum of 2^56 or more is halved first
FNormWide(hi, lo, e) ==
    IF hi >= 2 ^ HiBits
    THEN FRoundWide(hi \div 2,
                    Sticky((lo \div 2) + (hi % 2) * (2 ^ (WideBits - 1)), lo % 2 = 1),
                    e + 1)
    ELSE FRoundWide(hi, lo, e)

FAddWide(a, bhi, blo) ==
    FNormWide(a.hi + bhi + (a.lo * 8 + blo) \div (2 ^ WideBits),
              (a.lo * 8 + blo) % (2 ^ WideBits),
              a.e)

FAddOrdered(a, b) == FAddWide(a, AlignHi(b, a.e - b.e), AlignLo(b, a.e - b.e))

\* x + y
FAdd(x, y) ==
    IF x.k = "nan" \/ y.k = "nan" THEN FNaN
    ELSE IF x.hi = 0 THEN y
    ELSE IF y.hi = 0 THEN x
    ELSE IF x.e >= y.e THEN FAddOrdered(x, y) ELSE FAddOrdered(y, x)

\* x < y, as Python compares floats (any comparison with NaN is False)
FLt(x, y) ==
    /\ x.k = "num" /\ y.k = "num"
    /\ y.hi # 0
    /\ \/ x.hi = 0
       \/ x.e < y.e
       \/ x.e = y.e /\ (x.hi < y.hi \/ (x.hi = y.hi /\ x.lo < y.lo))

FLe(x, y) == x.k = "num" /\ y.k = "num" /\ (x = y \/ FLt(x, y))

(***************************************************************************)
(* Products, quotients and differences, as the report generator needs      *)
(* them.  Each is formed exactly on the significands and rounded once.     *)
(***************************************************************************)
\* a - b for a >= b
RECURSIVE BSubFrom(_, _, _, _)
BSubFrom(a, b, i, borrow) ==
    IF i > Len(a) THEN <<>>
    ELSE <<(a[i] - BLimb(b, i) - borrow + LimbBase) % LimbBase>>
         \o BSubFrom(a, b, i + 1, IF a[i] - BLimb(b, i) - borrow < 0 THEN 1 ELSE 0)

BSub(a, b) == BNorm(BSubFrom(a, b, 1, 0))

\* a * n + carry for one limb n
RECURSIVE BMulLimbFrom(_, _, _, _)
BMulLimbFrom(a, n, i, carry) ==
    IF i > Len(a) THEN IF carry = 0 THEN <<>> ELSE <<carry>>
    ELSE <<(a[i] * n + carry) % LimbBase>>
         \o BMulLimbFrom(a, n, i + 1, (a[i] * n + carry) \div LimbBase)

\* a * b with the limbs of b taken from the highest down: acc becomes
\* acc * LimbBase + a * b[j]
BMulStep(acc, a, b, j) ==
    BAdd(BMulLimbFrom(a, b[j], 1, 0), IF acc = <<>> THEN <<>> ELSE <<0>> \o acc)

RECURSIVE BMulSteps(_, _, _, _, _)
BMulSteps(acc, a, b, j, n) ==
    IF n = 0 \/ Len(acc) < 0 THEN acc
    ELSE IF n = 1 THEN BMulStep(acc, a, b, j)
    ELSE BMulSteps(BMulSteps(acc, a, b, j, n \div 2), a, b, j - (n \div 2), n - (n \div 2))

BMul(a, b) == IF a = <<>> THEN <<>> ELSE BMulSteps(<<>>, a, b, Len(b), Len(b))

\* one step of the long division of r by d for r < 2 * d: s = <<r, q>> becomes
\* <<2 * (r - d), 2 * q + 1>> or <<2 * r, 2 * q>>
BDivStep(s, d) ==
    IF BCmp(s[1], d) >= 0
    THEN <<BShl(BSub(s[1], d), 1), BAdd(BShl(s[2], 1), <<1>>)>>
    ELSE <<BShl(s[1], 1), BShl(s[2], 1)>>

RECURSIVE BDivSteps(_, _, _)
BDivSteps(s, d, n) ==
    IF n = 0 \/ Len(s) = 0 THEN s
    ELSE IF n = 1 THEN BDivStep(s, d)
    ELSE BDivSteps(BDivSteps(s, d, n \div 2), d, n - (n \div 2))

BQuotient(s) == <<s[2], IF s[1] = <<>> THEN 0 ELSE 1>>

\* floor(r * 2^k / d) for r < 2 * d, and whether a remainder is left
BDivBits(r, d, k) == BQuotient(BDivSteps(<<r, <<>>>>, d, k + 1))

\* x * y
FMul(x, y) ==
    IF x.k = "nan" \/ y.k = "nan" THEN FNaN
    ELSE IF x.hi = 0 \/ y.hi = 0 THEN FZero
    ELSE FRound(BMul(Significand(x), Significand(y)), x.e + y.e, FALSE)

\* x / y for y # 0: SigBits + 2 quotient bits and a sticky bit, rounded
FDiv(x, y) ==
    IF x.k = "nan" \/ y.k = "nan" THEN FNaN
    ELSE IF x.hi = 0 THEN FZero
    ELSE FRoundQuotient(BDivBits(Significand(x), Significand(y), SigBits + 2),
                        x.e - y.e - (SigBits + 2))

\* x - y for x >= y >= 0
FSub(x, y) ==
    IF x.k = "nan" \/ y.k = "nan" THEN FNaN
    ELSE IF y.hi = 0 THEN x
    ELSE FRound(BSub(BShl(Significand(x), x.e - y.e), Significand(y)), y.e, FALSE)

\* int(x) for x >= 0: the integer part
FTrunc(x) ==
    IF x.hi = 0 THEN 0
    ELSE IF x.e >= 0 THEN BToInt(BShl(Significand(x), x.e), 1)
    ELSE BToInt(BShr(Significand(x), 0 - x.e), 1)

\* the integer nearest to x * scale for x >= 0, ties to the even one: the
\* digits of round(x, n) and of the formats .nf, with scale = 10^n
FRoundDec(x, scale) ==
    IF x.hi = 0 THEN 0
    ELSE IF x.e >= 0 THEN BToInt(BShl(BMul(Significand(x), BFromInt(scale)), x.e), 1)
    ELSE BToInt(RoundOff(BMul(Significand(x), BFromInt(scale)), 0 - x.e, FALSE), 1)

\* the float of a decimal with four places, u in units of 0.0001
Dec(u) == FDivInt(FInt(u), 10000)

(***************************************************************************)
(* Signed floats [neg, mag] for the cumulative cash position, which starts *)
(* below zero and rises.                                                   *)
(***************************************************************************)
SNum(neg, mag) == [neg |-> neg /\ mag.hi # 0, mag |-> mag]

\* a + b
SAdd(a, b) ==
    IF a.neg = b.neg THEN SNum(a.neg, FAdd(a.mag, b.mag))
    ELSE IF FLe(b.mag, a.mag) THEN SNum(a.neg, FSub(a.mag, b.mag))
    ELSE SNum(b.neg, FSub(b.mag, a.mag))

\* a / n for an integer 0 < n < 2^15
SDivInt(a, n) == SNum(a.neg, FDivInt(a.mag, n))

\* a < b
SLt(a, b) ==
    IF a.neg /\ ~b.neg THEN TRUE
    ELSE IF ~a.neg /\ b.neg THEN FALSE
    ELSE IF a.neg THEN FLt(b.mag, a.mag)
    ELSE FLt(a.mag, b.mag)

\* x ** k for k = 0 .. n - 1, each the float nearest to the power (pow is
\* taken as correctly rounded).  The power is carried along as pw * 2^e, cut
\* to its PowBits high bits: exact while `cut` is false, and later short of
\* the power by less than k units of 2^e, which is far below what decides
\* the rounding to SigBits bits of the powers taken here.
PowBits == 3 * SigBits

PowCut(m, e, cut, d) ==
    IF d > 0
    THEN [pw |-> BShr(m, d), e |-> e + d, cut |-> cut \/ BLowNonzero(m, d)]
    ELSE [pw |-> m, e |-> e, cut |-> cut]

PowTimes(x, prev, m) == PowCut(m, prev.e + x.e, prev.cut, BLen(m) - PowBits)

PowAppend(seq, v, next) == [seq |-> Append(seq, v), pw |-> next.pw, e |-> next.e,
                            cut |-> next.cut]

PowersStep(prev, x) ==
    PowAppend(prev.seq,
              IF prev.seq = <<>> THEN FInt(1) ELSE FRound(prev.pw, prev.e, prev.cut),
              PowTimes(x, prev, BMul(prev.pw, Significand(x))))

RECURSIVE PowersSteps(_, _, _)
PowersSteps(prev, x, n) ==
    IF n = 0 \/ Len(prev.seq) < 0 THEN prev
    ELSE IF n = 1 THEN PowersStep(prev, x)
    ELSE PowersSteps(PowersSteps(prev, x, n \div 2), x, n - (n \div 2))

Powers(x, n) == PowersSteps([seq |-> <<>>, pw |-> <<1>>, e |-> 0, cut |-> FALSE], x, n)

(***************************************************************************)
(* Month tokens are Python strings, kept as sequences of character codes   *)
(* relative to "0": the digits are 0..9 and "-" is -3, so that comparing   *)
(* codes is comparing characters.  "2026-03" is <<2,0,2,6,-3,0,3>>.        *)
(***************************************************************************)
IsDigit(c) == c >= 0 /\ c <= 9

\* the text "YYYY-" followed by the month text mm
Token(y, mm) ==
    <<(y \div 1000) % 10, (y \div 100) % 10, (y \div 10) % 10, y % 10, -3>> \o mm

\* the literal "YYYY-MM"
Ym(y, m) == Token(y, <<m \div 10, m % 10>>)

\* the text "unknown"
Unknown == <<69, 62, 59, 62, 63, 71, 62>>

\* a < b as Python compares strings
StrLess(a, b) ==
    \E i \in 1..Len(b) :
        /\ \A j \in 1..(i - 1) : j <= Len(a) /\ a[j] = b[j]
        /\ (i > Len(a) \/ a[i] < b[i])

\* datetime.strptime(t, "%Y-%m") returns: the whole of t matches
\* (\d\d\d\d)-(1[0-2]|0[1-9]|[1-9]) and the year is not 0
StrptimeOk(t) ==
    /\ Len(t) \in {6, 7}
    /\ \A i \in 1..4 : IsDigit(t[i])
    /\ t[5] = -3
    /\ \E i \in 1..4 : t[i] # 0
    /\ IF Len(t) = 7
       THEN \/ t[6] = 1 /\ t[7] \in 0..2
            \/ t[6] = 0 /\ t[7] \in 1..9
       ELSE t[6] \in 1..9

\* the calendar month a valid token names, as months since year 0
CalMonth(t) ==
    LET y == t[1] * 1000 + t[2] * 100 + t[3] * 10 + t[4]
        m == IF Len(t) = 7 THEN t[6] * 10 + t[7] ELSE t[6]
    IN  y * 12 + (m - 1)

(***************************************************************************)
(* Prices.  NaNUnits stands for the text NaN (float("nan")); every other   *)
(* price is a decimal in units of 0.0001.                                   *)
(***************************************************************************)
NaNUnits == 0 - 1

SeedUnits == {2080, 1950, 2120, 2200, 2310, 2420, 2350, 2280, 2190, 2100, 2050, 2000,
               2140, 2180}

\* the prices given on the command line: 0, 0.04, 0.05, 0.80, 0.81 and nan
SmpArgs == {0, 400, 500, 8000, 8100, NaNUnits}

\* the prices of the histories the statistics are applied to
FnUnits == {1000, 2000}

PriceUnits == (SeedUnits \cup SmpArgs \cup FnUnits \cup {500, 8000, 2000, 1500, 2500})
              \ {NaNUnits}

\* float("0.dddd"): the binary64 value nearest to u / 10000
FloatTable == [u \in PriceUnits |-> FDivInt(FInt(u), 10000)]

Float(u) == IF u = NaNUnits THEN FNaN ELSE FloatTable[u]

(***************************************************************************)
(* Records of the history: dicts with month, smp, source and the stamps    *)
(* created_at / updated_at (0: the key is absent; otherwise the time of    *)
(* the run that set it).                                                   *)
(***************************************************************************)
Entry(month, smp, source, created, updated) ==
    [month |-> month, smp |-> smp, source |-> source,
     created_at |-> created, updated_at |-> updated]

Seed(month, smp) == Entry(month, smp, "estimated", 0, 0)

DEFAULT_SMP_DATA ==
    << Seed(Ym(2025, 1), 2080), Seed(Ym(2025, 2), 1950), Seed(Ym(2025, 3), 2120),
       Seed(Ym(2025, 4), 2200), Seed(Ym(2025, 5), 2310), Seed(Ym(2025, 6), 2420),
       Seed(Ym(2025, 7), 2350), Seed(Ym(2025, 8), 2280), Seed(Ym(2025, 9), 2190),
       Seed(Ym(2025, 10), 2100), Seed(Ym(2025, 11), 2050), Seed(Ym(2025, 12), 2000),
       Seed(Ym(2026, 1), 2140), Seed(Ym(2026, 2), 2180) >>

\* x placed into the descending list s behind every record whose month is not
\* smaller than x's
RECURSIVE InsertDesc(_, _)
InsertDesc(s, x) ==
    IF s = <<>> THEN <<x>>
    ELSE IF StrLess(Head(s).month, x.month) THEN <<x>> \o s
    ELSE <<Head(s)>> \o InsertDesc(Tail(s), x)

\* sorted(data, key=lambda x: x["month"], reverse=True): stable, by string order
RECURSIVE SortDesc(_)
SortDesc(data) ==
    IF data = <<>> THEN <<>>
    ELSE InsertDesc(SortDesc(SubSeq(data, 1, Len(data) - 1)), data[Len(data)])

\* s[:n] for n >= 0
Take(s, n) == SubSeq(s, 1, IF n < Len(s) THEN n ELSE Len(s))

Months(recs) == {recs[i].month : i \in 1..Len(recs)}

(***************************************************************************)
(* The history file: absent, or holding a list of records.                 *)
(***************************************************************************)
NoFile == [exists |-> FALSE, recs |-> <<>>]

FileOf(recs) == [exists |-> TRUE, recs |-> recs]

\* save_smp_data: data.sort(...) in place, then the file is rewritten
save_smp_data(data) == [data |-> SortDesc(data), file |-> FileOf(SortDesc(data))]

\* load_smp_data without the seeding of a first run
load_smp_data_no_seed(f) ==
    IF f.exists THEN [data |-> f.recs, file |-> f]
    ELSE [data |-> <<>>, file |-> f]

\* load_smp_data: the file's list, or on a first run the seed data, saved
load_smp_data(f) ==
    IF f.exists THEN [data |-> f.recs, file |-> f]
    ELSE save_smp_data(DEFAULT_SMP_DATA)

\* get_latest_smp
get_latest_smp(data) ==
    IF data = <<>> THEN [month |-> Unknown, smp |-> 2000, source |-> "fallback"]
    ELSE LET e == SortDesc(data)[1]
         IN  [month |-> e.month, smp |-> e.smp, source |-> e.source]

(***************************************************************************)
(* Statistics.  sum(values) adds from 0 left to right, len divides; min    *)
(* and max keep the first value unless a later one compares smaller        *)
(* (larger).                                                               *)
(***************************************************************************)
RECURSIVE PySum(_, _)
PySum(vals, i) == IF i = 0 THEN FZero ELSE FAdd(PySum(vals, i - 1), vals[i])

RECURSIVE PyMin(_, _)
PyMin(vals, i) ==
    IF i = 1 THEN vals[1]
    ELSE LET best == PyMin(vals, i - 1) IN IF FLt(vals[i], best) THEN vals[i] ELSE best

RECURSIVE PyMax(_, _)
PyMax(vals, i) ==
    IF i = 1 THEN vals[1]
    ELSE LET best == PyMax(vals, i - 1) IN IF FLt(best, vals[i]) THEN vals[i] ELSE best

Values(window) == [i \in 1..Len(window) |-> Float(window[i].smp)]

Mean(vals) == FDivInt(PySum(vals, Len(vals)), Len(vals))

\* months: int = 12, the default of both get_smp_stats
DefaultMonths == 12

\* the window of get_smp_stats: the first `months` records by descending month
Window(data, months) == Take(SortDesc(data), months)

\* smp-update.py get_smp_stats: a dict, `keys` the keys it holds
get_smp_stats(data, months) ==
    LET sorted_data == Window(data, months)
        values      == Values(sorted_data)
    IN  IF sorted_data = <<>>
        THEN [keys |-> {"avg", "min", "max", "count"},
              avg |-> Float(2000), min |-> Float(1500), max |-> Float(2500), count |-> 0,
              latest |-> FZero, latest_month |-> <<>>, values |-> <<>>]
        ELSE [keys |-> {"avg", "min", "max", "count", "latest", "latest_month", "values"},
              avg |-> Mean(values),
              min |-> PyMin(values, Len(values)),
              max |-> PyMax(values, Len(values)),
              count |-> Len(values),
              latest |-> Float(sorted_data[1].smp),
              latest_month |-> sorted_data[1].month,
              values |-> sorted_data]

\* generate-dossier.py load_smp_history
load_smp_history(f) == IF f.exists THEN SortDesc(f.recs) ELSE <<>>

\* generate-dossier.py get_smp_stats with all_estimated taken over the whole
\* history
dossier_get_smp_stats_all_history(f, months) ==
    LET data   == Take(load_smp_history(f), months)
        values == Values(data)
        all_estimated ==
            \A i \in 1..Len(load_smp_history(f)) :
                load_smp_history(f)[i].source = "estimated"
    IN  IF data = <<>>
        THEN [avg |-> Float(2000), min |-> Float(1500), max |-> Float(2500),
              latest |-> Float(2000), latest_month |-> Unknown,
              history |-> <<>>, count |-> 0, source |-> "fallback"]
        ELSE [avg |-> Mean(values),
              min |-> PyMin(values, Len(values)),
              max |-> PyMax(values, Len(values)),
              latest |-> Float(data[1].smp),
              latest_month |-> data[1].month,
              history |-> data,
              count |-> Len(values),
              source |-> IF all_estimated THEN "estimated" ELSE "singlebuyer"]

\* generate-dossier.py get_smp_stats
dossier_get_smp_stats(f, months) ==
    LET data   == Take(load_smp_history(f), months)
        values == Values(data)
        all_estimated == \A i \in 1..Len(data) : data[i].source = "estimated"
    IN  IF data = <<>>
        THEN [avg |-> Float(2000), min |-> Float(1500), max |-> Float(2500),
              latest |-> Float(2000), latest_month |-> Unknown,
              history |-> <<>>, count |-> 0, source |-> "fallback"]
        ELSE [avg |-> Mean(values),
              min |-> PyMin(values, Len(values)),
              max |-> PyMax(values, Len(values)),
              latest |-> Float(data[1].smp),
              latest_month |-> data[1].month,
              history |-> data,
              count |-> Len(values),
              source |-> IF all_estimated THEN "estimated" ELSE "singlebuyer"]

(***************************************************************************)
(* add_smp_entry: validation, then update of the first record whose month  *)
(* string equals month_str, or append.  `now` is datetime.now().           *)
(***************************************************************************)
\* not (smp < 0.05 or smp > 0.80)
InRange(smp) == ~(FLt(Float(smp), Float(500)) \/ FLt(Float(8000), Float(smp)))

FirstWithMonth(data, month_str) ==
    IF \E i \in 1..Len(data) : data[i].month = month_str
    THEN CHOOSE i \in 1..Len(data) :
             /\ data[i].month = month_str
             /\ \A j \in 1..(i - 1) : data[j].month # month_str
    ELSE 0

\* add_smp_entry with an update that keeps the old price
add_smp_entry_keeps_price(data, month_str, smp, source, now) ==
    LET i == FirstWithMonth(data, month_str)
    IN  IF ~StrptimeOk(month_str) \/ ~InRange(smp)
        THEN [raised |-> TRUE, data |-> data]
        ELSE IF i > 0
        THEN [raised |-> FALSE,
              data |-> [data EXCEPT ![i] = [@ EXCEPT !.source = source,
                                                    !.updated_at = now]]]
        ELSE [raised |-> FALSE,
              data |-> Append(data, Entry(month_str, smp, source, now, 0))]

\* add_smp_entry with an insert that takes the place of the last record
add_smp_entry_replaces_last(data, month_str, smp, source, now) ==
    LET i == FirstWithMonth(data, month_str)
    IN  IF ~StrptimeOk(month_str) \/ ~InRange(smp)
        THEN [raised |-> TRUE, data |-> data]
        ELSE IF i > 0
        THEN [raised |-> FALSE,
              data |-> [data EXCEPT ![i] = [@ EXCEPT !.smp = smp, !.source = source,
                                                    !.updated_at = now]]]
        ELSE [raised |-> FALSE,
              data |-> SubSeq(data, 1, Len(data) - 1)
                          \o <<Entry(month_str, smp, source, now, 0)>>]

add_smp_entry(data, month_str, smp, source, now) ==
    LET i == FirstWithMonth(data, month_str)
    IN  IF ~StrptimeOk(month_str) \/ ~InRange(smp)
        THEN [raised |-> TRUE, data |-> data]
        ELSE IF i > 0
        THEN [raised |-> FALSE,
              data |-> [data EXCEPT ![i] = [@ EXCEPT !.smp = smp, !.source = source,
                                                    !.updated_at = now]]]
        ELSE [raised |-> FALSE,
              data |-> Append(data, Entry(month_str, smp, source, now, 0))]

\* show_smp_table: the statistics it computes, and whether stats['latest_month']
\* (line 159) raises KeyError
show_smp_table(data) ==
    LET stats == get_smp_stats(data, DefaultMonths)
    IN  [stats |-> stats, raised |-> "latest_month" \notin stats.keys]

\* the --stats summary of main: stats['latest'] and stats['latest_month'] (line 242)
stats_summary(data) ==
    LET stats == get_smp_stats(data, DefaultMonths)
    IN  [stats |-> stats,
         raised |-> "latest" \notin stats.keys \/ "latest_month" \notin stats.keys]

(***************************************************************************)
(* The programs.  One run of smp-update.py at a time goes through main():  *)
(* parse the arguments, load, add or update an entry, save, display.  The  *)
(* report generator reads the same file whenever it is run.  The Supabase  *)
(* push of --supabase does not touch the history and is left out.          *)
(***************************************************************************)
VARIABLES
    file,    \* smp_history.json
    data,    \* main's list `data`
    args,    \* the parsed command line of the run
    pc,      \* where main is
    exit,    \* how the run ended: "ok", "ValueError", "KeyError", "exit1"
    clock,   \* the number of runs started; datetime.now() of the run
    pre,     \* file and data as they were when lines 220-229 were entered
    ustats,  \* the statistics the run computed last
    dstats,  \* smp_stats of the running build_dossier
    months,  \* the months argument the statistics were called with
    bytes,   \* the text of the file: "complete" (the JSON of file.recs), "empty"
             \* (opened for writing, nothing written yet) or "mixed" (a shorter
             \* text written over a longer one)
    wpc,     \* overlapping runs of smp-update.py: where each one is
    wargs,   \* their --month and --smp
    wdata,   \* their lists `data`
    rd,      \* what a reader of the file got while they ran
    p,       \* the facility profile the report sections are given
    out,     \* what the section of the report built last put on the page
    prospect,        \* generate-dossier.py: the module's global PROSPECT
    HAS_IMAGE_DEPS,  \* generate-dossier.py: the module's global of that name
    argv,    \* generate-dossier.py: the values that follow the flags
    world,   \* what the run of generate-dossier.py finds: the libraries
             \* installed, the interpreter, the answer of the map service
    story,   \* the build last made: its tier, its pages, what it raised
    effects, \* what the process did outside itself, in order
    builds   \* the number of builds the process made

vars == <<file, data, args, pc, exit, clock, pre, ustats, dstats, months,
          bytes, wpc, wargs, wdata, rd, p, out,
          prospect, HAS_IMAGE_DEPS, argv, world, story, effects, builds>>

\* runs of smp-update.py in one behaviour
MaxRuns == 2

\* window lengths and history lengths the statistics are applied to
MaxMonths == 3
MaxHist == 3

MonthArgs == {<<>>, Ym(2026, 3), Ym(2025, 1), Token(2026, <<1>>), Token(2026, <<1, 3>>)}

\* <<--show, --stats, --export>>
FlagArgs == {<<FALSE, FALSE, FALSE>>, <<TRUE, TRUE, TRUE>>}

NoArgs ==
    [month |-> <<>>, smp_given |-> FALSE, smp |-> 0,
     show |-> FALSE, stats |-> FALSE, export |-> FALSE]

\* the command lines tried; without --month no --smp is given
ArgsSet ==
    { [month |-> m, smp_given |-> g, smp |-> IF g THEN u ELSE 0,
       show |-> f[1], stats |-> f[2], export |-> f[3]] :
          m \in MonthArgs, g \in BOOLEAN, u \in SmpArgs, f \in FlagArgs }
    \ { a \in [month : {<<>>}, smp_given : {TRUE}, smp : SmpArgs,
               show : BOOLEAN, stats : BOOLEAN, export : BOOLEAN] : TRUE }

\* Python truth of args.month and of args.smp (None, "" and 0.0 are false)
MonthTruthy(a) == a.month # <<>>
SmpTruthy(a) == a.smp_given /\ a.smp # 0

NoStats ==
    [keys |-> {}, avg |-> FZero, min |-> FZero, max |-> FZero, count |-> 0,
     latest |-> FZero, latest_month |-> <<>>, values |-> <<>>]

NoDossierStats ==
    [avg |-> FZero, min |-> FZero, max |-> FZero, latest |-> FZero,
     latest_month |-> <<>>, history |-> <<>>, count |-> 0, source |-> "none"]

\* smp-update.py runs that overlap in time
MaxWriters == 2

Writers == 1..MaxWriters

NoRead == [done |-> FALSE, ok |-> TRUE, recs |-> <<>>]

\* no overlapping runs: the file is read and rewritten by one process at a time
concvars == <<bytes, wpc, wargs, wdata, rd>>

ConcIdle ==
    /\ bytes = "complete"
    /\ wpc = [w \in Writers |-> "idle"]
    /\ wargs = [w \in Writers |-> [month |-> <<>>, smp |-> 0]]
    /\ wdata = [w \in Writers |-> <<>>]
    /\ rd = NoRead

\* generate-dossier.py PROSPECT: the fields the numbers of the report come
\* from.  blended_tariff and smp_floor are decimals in units of 0.0001.
PROSPECT ==
    [md_kw |-> 350, size_kwp |-> 280, annual_gen_kwh |-> 364000,
     self_consumption_pct |-> 80, blended_tariff |-> 3340, smp_floor |-> 2000,
     capex_low |-> 512000, capex_mid |-> 570000, capex_high |-> 629000,
     roof_sqft |-> 16800]

NoOut == [section |-> "none", raised |-> "none", val |-> <<>>]

\* None, which no text equals: a text is a sequence of character codes
None == <<0 - 48>>

NoArgv == [tier |-> None, lat |-> None, lng |-> None, api_key |-> None, env_key |-> None]

NoWorld == [deps |-> FALSE, deferred |-> FALSE, fetch |-> "none", main |-> FALSE]

NoStory == [tier |-> None, raised |-> "none", fetched |-> "none", pages |-> <<>>]

dosvars == <<prospect, HAS_IMAGE_DEPS, argv, world, story, effects, builds>>

\* generate-dossier.py is not running as a program
DosIdle ==
    /\ prospect = PROSPECT
    /\ HAS_IMAGE_DEPS = FALSE
    /\ argv = NoArgv
    /\ world = NoWorld
    /\ story = NoStory
    /\ effects = <<>>
    /\ builds = 0

repvars == <<p, out, prospect, HAS_IMAGE_DEPS, argv, world, story, effects, builds>>

\* no report is being built
RepIdle == p = PROSPECT /\ out = NoOut /\ DosIdle

Init ==
    /\ file = NoFile
    /\ data = <<>>
    /\ args = NoArgs
    /\ pc = "idle"
    /\ exit = "none"
    /\ clock = 0
    /\ pre = [file |-> NoFile, data |-> <<>>]
    /\ ustats = NoStats
    /\ dstats = NoDossierStats
    /\ months = DefaultMonths
    /\ ConcIdle
    /\ RepIdle

\* a run of the report generator has read the history and not ended yet
ReportRunning == dstats # NoDossierStats

\* main, lines 211-215: parse_args and the default action
Start(a) ==
    /\ pc = "idle"
    /\ ~ReportRunning
    /\ clock < MaxRuns
    /\ args' = IF ~(MonthTruthy(a) \/ a.show \/ a.export \/ a.stats)
               THEN [a EXCEPT !.show = TRUE] ELSE a
    /\ pc' = "load"
    /\ exit' = "running"
    /\ clock' = clock + 1
    /\ UNCHANGED <<months, file, data, pre, ustats, dstats>>
    /\ UNCHANGED concvars
    /\ UNCHANGED repvars

\* main, line 217
Load ==
    /\ pc = "load"
    /\ ~ReportRunning
    /\ data' = load_smp_data(file).data
    /\ file' = load_smp_data(file).file
    /\ pc' = "upsert"
    /\ UNCHANGED <<months, args, exit, clock, pre, ustats, dstats>>
    /\ UNCHANGED concvars
    /\ UNCHANGED repvars

\* main, lines 220-229: add_smp_entry and, when it returns, save_smp_data
Upsert ==
    /\ pc = "upsert"
    /\ ~ReportRunning
    /\ pre' = [file |-> file, data |-> data]
    /\ IF MonthTruthy(args) /\ SmpTruthy(args)
       THEN LET r == add_smp_entry(data, args.month, args.smp, "singlebuyer", clock)
            IN  IF r.raised
                THEN /\ data' = r.data
                     /\ file' = file
                     /\ pc' = "done"
                     /\ exit' = "ValueError"
                ELSE /\ data' = save_smp_data(r.data).data
                     /\ file' = save_smp_data(r.data).file
                     /\ pc' = "show"
                     /\ exit' = exit
       ELSE IF MonthTruthy(args)
       THEN data' = data /\ file' = file /\ pc' = "done" /\ exit' = "exit1"
       ELSE data' = data /\ file' = file /\ pc' = "show" /\ exit' = exit
    /\ UNCHANGED <<months, args, clock, ustats, dstats>>
    /\ UNCHANGED concvars
    /\ UNCHANGED repvars

\* main, lines 232-233
Show ==
    /\ pc = "show"
    /\ ~ReportRunning
    /\ IF args.show
       THEN LET r == show_smp_table(data)
            IN  /\ ustats' = r.stats
                /\ pc' = IF r.raised THEN "done" ELSE "stats"
                /\ exit' = IF r.raised THEN "KeyError" ELSE exit
       ELSE ustats' = ustats /\ pc' = "stats" /\ exit' = exit
    /\ UNCHANGED <<months, file, data, args, clock, pre, dstats>>
    /\ UNCHANGED concvars
    /\ UNCHANGED repvars

\* main, lines 235-243
Stats ==
    /\ pc = "stats"
    /\ ~ReportRunning
    /\ IF args.stats
       THEN LET r == stats_summary(data)
            IN  /\ ustats' = r.stats
                /\ pc' = IF r.raised THEN "done" ELSE "export"
                /\ exit' = IF r.raised THEN "KeyError" ELSE exit
       ELSE ustats' = ustats /\ pc' = "export" /\ exit' = exit
    /\ UNCHANGED <<months, file, data, args, clock, pre, dstats>>
    /\ UNCHANGED concvars
    /\ UNCHANGED repvars

\* main, lines 245-246: the last statement of the run
Export ==
    /\ pc = "export"
    /\ ~ReportRunning
    /\ pc' = "done"
    /\ exit' = "ok"
    /\ UNCHANGED <<months, file, data, args, clock, pre, ustats, dstats>>
    /\ UNCHANGED concvars
    /\ UNCHANGED repvars

\* the process of the run ends: what it held in memory is gone
Exit ==
    /\ pc = "done"
    /\ ~ReportRunning
    /\ pc' = "idle"
    /\ data' = <<>>
    /\ args' = NoArgs
    /\ pre' = [file |-> NoFile, data |-> <<>>]
    /\ ustats' = NoStats
    /\ exit' = "none"
    /\ UNCHANGED <<months, file, clock, dstats>>
    /\ UNCHANGED concvars
    /\ UNCHANGED repvars

\* build_dossier, line 1749: the report generator reads the history.  It is
\* another process; here it reads while no run of smp-update.py has the file
\* open for writing (reads and runs that overlap a rewrite of the file are the
\* subject of SpecConc below).  The file changes in Load and in Upsert only, so
\* a read at any other moment returns what a read right after the last of
\* them (or between two runs) returns, and only those are taken.
DossierStats ==
    /\ pc \in {"idle", "upsert", "show"}
    /\ ~ReportRunning
    /\ dstats' = dossier_get_smp_stats(file, months)
    /\ UNCHANGED <<months, file, data, args, pc, exit, clock, pre, ustats>>
    /\ UNCHANGED concvars
    /\ UNCHANGED repvars

\* the report generator's run ends.  What it does after the read touches
\* nothing smp-update.py reads, so it is taken to end before the next step
\* of main (the guard ~ReportRunning of main's steps).
DossierExit ==
    /\ ReportRunning
    /\ dstats' = NoDossierStats
    /\ UNCHANGED <<months, file, data, args, pc, exit, clock, pre, ustats>>
    /\ UNCHANGED concvars
    /\ UNCHANGED repvars

Next ==
    \/ \E a \in ArgsSet : Start(a)
    \/ Load
    \/ Upsert
    \/ Show
    \/ Stats
    \/ Export
    \/ Exit
    \/ DossierStats
    \/ DossierExit

Spec == Init /\ [][Next]_vars

(***************************************************************************)
(* Properties of the update path.                                          *)
(***************************************************************************)
\* the run has added or updated an entry and saved (lines 220-222 are passed)
Upserted ==
    /\ pc \in {"show", "stats", "export"}
    /\ MonthTruthy(args)
    /\ SmpTruthy(args)

\* a price of the band [0.05, 0.80], in units of 0.0001
InBand(u) == u # NaNUnits /\ 500 <= u /\ u <= 8000

\* the month and the price of the entry are those of the command line
IsUpserted(e) == e.month = args.month /\ e.smp = args.smp

LatestIsUpserted ==
    /\ IsUpserted(get_latest_smp(data))
    /\ get_smp_stats(data, 1).latest_month = args.month
    /\ get_smp_stats(data, 1).latest = Float(args.smp)
    /\ get_smp_stats(data, 1).count = 1

C2_InvalidUpsertRejected ==
    (/\ pc \in {"show", "stats", "export", "done"}
     /\ MonthTruthy(args)
     /\ args.smp_given
     /\ (~StrptimeOk(args.month) \/ ~InBand(args.smp)))
    => /\ pc = "done"
       /\ exit \in {"ValueError", "exit1"}
       /\ data = pre.data
       /\ file = pre.file

\* every price of the list is of the band
AllInBand(recs) == \A i \in 1..Len(recs) : InBand(recs[i].smp)

\* C3: the store (prices of the band only) holds at most one observation per
\* calendar month.
C3_OnePerCalendarMonth ==
    (AllInBand(data) /\ AllInBand(file.recs)) =>
    /\ \A i, j \in 1..Len(data) :
          CalMonth(data[i].month) = CalMonth(data[j].month) => i = j
    /\ \A i, j \in 1..Len(file.recs) :
          CalMonth(file.recs[i].month) = CalMonth(file.recs[j].month) => i = j

\* C4: the saved log is in descending order of month, its first record being
\* the chronologically most recent month of the store (prices of the band only).
C4_LogDescending ==
    AllInBand(file.recs) =>
    \A i, j \in 1..Len(file.recs) :
        i < j => CalMonth(file.recs[i].month) > CalMonth(file.recs[j].month)

\* the records of a other than those of month m, as month, price and source
Others(a, m) ==
    { <<a[i].month, a[i].smp, a[i].source>> : i \in {k \in 1..Len(a) : a[k].month # m} }

\* C5: no step of a run takes a month out of the log or out of the list of the
\* run, and the upsert leaves month, price and source of the observations of
\* every other month as they were.
C5_NeverDeleted ==
    [][ /\ Months(file.recs) \subseteq Months(file'.recs)
        /\ pc # "done" => Months(data) \subseteq Months(data')
        /\ pc = "upsert" =>
              /\ Others(data, args.month) \subseteq Others(data', args.month)
              /\ Others(file.recs, args.month) \subseteq Others(file'.recs, args.month)
      ]_vars

\* two upserts of new months have been saved on top of the seed data
C5_Witness ==
    /\ Upserted
    /\ Len(file.recs) = Len(DEFAULT_SMP_DATA) + 2
    /\ Months(DEFAULT_SMP_DATA) \subseteq Months(file.recs)
    /\ Others(pre.data, args.month) \subseteq Others(data, args.month)

\* the seed data as the first run saves them
SeededLog == FileOf(SortDesc(DEFAULT_SMP_DATA))

\* the fallback of generate-dossier.py get_smp_stats
DossierFallback ==
    /\ dstats.count = 0
    /\ dstats.source = "fallback"
    /\ dstats.history = <<>>
    /\ dstats.avg = Float(2000) /\ dstats.min = Float(1500) /\ dstats.max = Float(2500)

\* the first run of smp-update.py has loaded
ColdStartLoaded == clock = 1 /\ pc = "upsert"

\* what the first run of smp-update.py has loaded is the seed data, saved
SeededOnColdStart ==
    ColdStartLoaded =>
        /\ file = SeededLog
        /\ data = file.recs
        /\ Len(data) = 14
        /\ \A i \in 1..Len(data) : data[i].source = "estimated"
        /\ Months(data) = Months(DEFAULT_SMP_DATA)

\* C6 as stated: with no log, the store is seeded with 14 estimated months, and
\* neither get_smp_stats of smp-update.py nor get_smp_stats of the report
\* generator runs over an empty set of observations.
C6_NoStatsOverEmptySet ==
    /\ SeededOnColdStart
    /\ ustats # NoStats => ustats.count > 0
    /\ ReportRunning => dstats.count > 0

\* C6, amended: with no log, smp-update.py seeds the store with 14 estimated
\* months and saves them when it loads, so that its get_smp_stats never runs over
\* an empty set; the report generator does not seed: while there is no log its
\* get_smp_stats runs over the empty set and returns the fallback, and once
\* there is one it runs over the observations of the log.
C6_UpdaterSeedsColdStart ==
    /\ SeededOnColdStart
    /\ ustats # NoStats => ustats.count > 0
    /\ ReportRunning => IF file.exists THEN dstats.count > 0 ELSE DossierFallback

\* the first run shows the table: statistics over the 12 latest of the 14 seeds
C6_Witness ==
    /\ clock = 1
    /\ pc = "stats"
    /\ file = SeededLog
    /\ ustats # NoStats
    /\ ustats.count = 12
    /\ ustats.latest_month = Ym(2026, 2)

(***************************************************************************)
(* The statistics on their own: get_smp_stats of both programs, the        *)
(* --show table and the --stats summary, applied once to a history and a   *)
(* window length.  The histories are lists as save_smp_data leaves them,   *)
(* of months add_smp_entry accepts and prices inside the band; the empty   *)
(* list is a log emptied by hand.                                          *)
(***************************************************************************)
\* "2026-01", "2025-10", "2025-9" and "2025-08"
FnMonths == {Ym(2026, 1), Ym(2025, 10), Token(2025, <<9>>), Ym(2025, 8)}

FnRecs ==
    { Entry(m, u, src, 0, 0) : m \in FnMonths, u \in FnUnits,
                               src \in {"estimated", "singlebuyer"} }

Histories ==
    { SortDesc(h) : h \in { g \in UNION { [1..n -> FnRecs] : n \in 0..MaxHist } :
                              \A i, j \in 1..Len(g) : i # j => g[i].month # g[j].month } }

InitFn ==
    /\ \E h \in Histories : file = FileOf(h) /\ data = h
    /\ months \in 1..MaxMonths
    /\ args = NoArgs
    /\ pc = "fn"
    /\ exit = "none"
    /\ clock = 0
    /\ pre = [file |-> NoFile, data |-> <<>>]
    /\ ustats = NoStats
    /\ dstats = NoDossierStats
    /\ ConcIdle
    /\ RepIdle

\* smp-update.py: get_smp_stats(data, months)
FnStats ==
    /\ pc = "fn"
    /\ ustats' = get_smp_stats(data, months)
    /\ pc' = "fn_stats"
    /\ exit' = "ok"
    /\ UNCHANGED <<file, data, args, clock, pre, dstats, months>>
    /\ UNCHANGED concvars
    /\ UNCHANGED repvars

\* smp-update.py: show_smp_table(data)
FnShow ==
    /\ pc = "fn"
    /\ ustats' = show_smp_table(data).stats
    /\ pc' = "fn_show"
    /\ exit' = IF show_smp_table(data).raised THEN "KeyError" ELSE "ok"
    /\ UNCHANGED <<file, data, args, clock, pre, dstats, months>>
    /\ UNCHANGED concvars
    /\ UNCHANGED repvars

\* smp-update.py: the --stats summary of main
FnSummary ==
    /\ pc = "fn"
    /\ ustats' = stats_summary(data).stats
    /\ pc' = "fn_summary"
    /\ exit' = IF stats_summary(data).raised THEN "KeyError" ELSE "ok"
    /\ UNCHANGED <<file, data, args, clock, pre, dstats, months>>
    /\ UNCHANGED concvars
    /\ UNCHANGED repvars

\* generate-dossier.py: get_smp_stats(months)
FnDossier ==
    /\ pc = "fn"
    /\ dstats' = dossier_get_smp_stats(file, months)
    /\ pc' = "fn_dossier"
    /\ exit' = "ok"
    /\ UNCHANGED <<file, data, args, clock, pre, ustats, months>>
    /\ UNCHANGED concvars
    /\ UNCHANGED repvars

NextFn ==
    \/ FnStats
    \/ FnShow
    \/ FnSummary
    \/ FnDossier

SpecFn == InitFn /\ [][NextFn]_vars

(***************************************************************************)
(* Properties of the statistics.                                           *)
(***************************************************************************)
Min(a, b) == IF a < b THEN a ELSE b

\* the window and the numbers of the call made
StatsDone == pc \in {"fn_stats", "fn_dossier"}
TheWindow == IF pc = "fn_stats" THEN ustats.values ELSE dstats.history
TheStats == IF pc = "fn_stats" THEN ustats ELSE dstats

\* the observations of the history left out of the window
LeftOut == {data[i] : i \in 1..Len(data)} \ {TheWindow[i] : i \in 1..Len(TheWindow)}

\* C7: the window holds min(n, number of observations) observations, and every
\* observation left out of it is of an older month than every observation in it.
C7_WindowMostRecent ==
    StatsDone =>
        /\ TheStats.count = Min(months, Len(data))
        /\ Len(TheWindow) = TheStats.count
        /\ \A r \in LeftOut : \A i \in 1..Len(TheWindow) :
              CalMonth(r.month) < CalMonth(TheWindow[i].month)

\* C8: over the empty history get_smp_stats returns avg 0.20, min 0.15, max
\* 0.25 and count 0, and the --show table, the --stats summary and the report
\* generator's call end without an exception.
C8_EmptyHistoryFallback ==
    (pc # "fn" /\ data = <<>>) =>
        /\ exit = "ok"
        /\ pc # "fn_dossier" =>
              /\ ustats.avg = Float(2000) /\ ustats.min = Float(1500)
              /\ ustats.max = Float(2500) /\ ustats.count = 0
        /\ pc = "fn_dossier" => DossierFallback

\* C9: over a window that is not empty, min <= avg <= max, min and max being
\* the smallest and the largest price of the window.
C9_MinAvgMax ==
    (StatsDone /\ TheWindow # <<>>) =>
        /\ FLe(TheStats.min, TheStats.avg)
        /\ FLe(TheStats.avg, TheStats.max)
        /\ \A i \in 1..Len(TheWindow) :
              /\ FLe(TheStats.min, Float(TheWindow[i].smp))
              /\ FLe(Float(TheWindow[i].smp), TheStats.max)
        /\ \E i \in 1..Len(TheWindow) : TheStats.min = Float(TheWindow[i].smp)
        /\ \E i \in 1..Len(TheWindow) : TheStats.max = Float(TheWindow[i].smp)

\* the observations of the log that fewer than `months` others come before in
\* the order of the log
Trailing ==
    { r \in {file.recs[i] : i \in 1..Len(file.recs)} :
         Cardinality({ k \in 1..Len(file.recs) : StrLess(r.month, file.recs[k].month) })
            < months }

WriterArgs == [month : {Ym(2026, 3), Ym(2026, 4)}, smp : {500, 8000}]

\* len(repr(smp)): "nan", or "0." and the decimals without trailing zeros
SmpLen(u) ==
    IF u = NaNUnits THEN 3
    ELSE IF u % 1000 = 0 THEN 3
    ELSE IF u % 100 = 0 THEN 4
    ELSE IF u % 10 = 0 THEN 5
    ELSE 6

\* the length of the text json.dump(.., indent=2) writes for one record
RecLen(r) ==
    54 + Len(r.month) + SmpLen(r.smp)
       + (IF r.source = "estimated" THEN 9 ELSE 11)
       + (IF r.created_at # 0 THEN 48 ELSE 0)
       + (IF r.updated_at # 0 THEN 48 ELSE 0)

RECURSIVE SumRecLen(_, _)
SumRecLen(recs, i) == IF i = 0 THEN 0 ELSE SumRecLen(recs, i - 1) + RecLen(recs[i])

\* the length of the text of a log
JsonLen(recs) ==
    IF recs = <<>> THEN 2 ELSE SumRecLen(recs, Len(recs)) + 2 * (Len(recs) - 1) + 4

\* the length of the text the file holds
FileLen == IF bytes = "empty" THEN 0 ELSE JsonLen(file.recs)

InitConc ==
    /\ file = FileOf(SortDesc(DEFAULT_SMP_DATA))
    /\ data = <<>>
    /\ args = NoArgs
    /\ pc = "conc"
    /\ exit = "none"
    /\ clock = 0
    /\ pre = [file |-> NoFile, data |-> <<>>]
    /\ ustats = NoStats
    /\ dstats = NoDossierStats
    /\ months = DefaultMonths
    /\ ConcIdle
    /\ RepIdle

seqvars == <<data, args, pc, exit, clock, pre, ustats, dstats, months>>

\* main, lines 211-215
WStart(w, a) ==
    /\ wpc[w] = "idle"
    /\ wargs' = [wargs EXCEPT ![w] = a]
    /\ wpc' = [wpc EXCEPT ![w] = "load"]
    /\ UNCHANGED <<file, bytes, wdata, rd>>
    /\ UNCHANGED seqvars
    /\ UNCHANGED repvars

\* main, line 217: load_smp_data; json.load raises JSONDecodeError on a text
\* that is not the JSON of a log
WLoad(w) ==
    /\ wpc[w] = "load"
    /\ IF file.exists /\ bytes # "complete"
       THEN /\ wpc' = [wpc EXCEPT ![w] = "JSONDecodeError"]
            /\ UNCHANGED <<file, wdata>>
       ELSE /\ wdata' = [wdata EXCEPT ![w] = load_smp_data(file).data]
            /\ file' = load_smp_data(file).file
            /\ wpc' = [wpc EXCEPT ![w] = "add"]
    /\ UNCHANGED <<bytes, wargs, rd>>
    /\ UNCHANGED seqvars
    /\ UNCHANGED repvars

\* main, line 221: add_smp_entry
WAdd(w) ==
    /\ wpc[w] = "add"
    /\ LET r == add_smp_entry(wdata[w], wargs[w].month, wargs[w].smp, "singlebuyer", w)
       IN  /\ wdata' = [wdata EXCEPT ![w] = r.data]
           /\ wpc' = [wpc EXCEPT ![w] = IF r.raised THEN "ValueError" ELSE "save"]
    /\ UNCHANGED <<file, bytes, wargs, rd>>
    /\ UNCHANGED seqvars
    /\ UNCHANGED repvars

\* save_smp_data, lines 69-70: data.sort, open(SMP_FILE, "w")
WOpen(w) ==
    /\ wpc[w] = "save"
    /\ wdata' = [wdata EXCEPT ![w] = SortDesc(wdata[w])]
    /\ file' = FileOf(<<>>)
    /\ bytes' = "empty"
    /\ wpc' = [wpc EXCEPT ![w] = "dump"]
    /\ UNCHANGED <<wargs, rd>>
    /\ UNCHANGED seqvars
    /\ UNCHANGED repvars

\* save_smp_data, line 71 and the end of the `with` block: the text is written
\* from offset 0; what the file holds beyond its end stays
WClose(w) ==
    /\ wpc[w] = "dump"
    /\ IF JsonLen(wdata[w]) >= FileLen
       THEN file' = FileOf(wdata[w]) /\ bytes' = "complete"
       ELSE file' = file /\ bytes' = "mixed"
    /\ wpc' = [wpc EXCEPT ![w] = "ok"]
    /\ UNCHANGED <<wargs, wdata, rd>>
    /\ UNCHANGED seqvars
    /\ UNCHANGED repvars

\* generate-dossier.py load_smp_history, run once while the updaters run
Read ==
    /\ ~rd.done
    /\ rd' = IF ~file.exists THEN [done |-> TRUE, ok |-> TRUE, recs |-> <<>>]
             ELSE IF bytes = "complete"
             THEN [done |-> TRUE, ok |-> TRUE, recs |-> load_smp_history(file)]
             ELSE [done |-> TRUE, ok |-> FALSE, recs |-> <<>>]
    /\ UNCHANGED <<file, bytes, wpc, wargs, wdata>>
    /\ UNCHANGED seqvars
    /\ UNCHANGED repvars

NextConc ==
    \/ \E w \in Writers : \E a \in WriterArgs : WStart(w, a)
    \/ \E w \in Writers : WLoad(w)
    \/ \E w \in Writers : WAdd(w)
    \/ \E w \in Writers : WOpen(w)
    \/ \E w \in Writers : WClose(w)
    \/ Read

SpecConc == InitConc /\ [][NextConc]_vars

\* the log holds an observation of w's month at w's price
Persisted(w) ==
    /\ bytes = "complete"
    /\ \E i \in 1..Len(file.recs) :
          file.recs[i].month = wargs[w].month /\ file.recs[i].smp = wargs[w].smp

\* C11: when the overlapping runs have all completed, the log holds the
\* observation of every run whose month no other run has upserted.
C11_WritersSerialized ==
    (\A w \in Writers : wpc[w] = "ok") =>
        \A w \in Writers :
            (\A v \in Writers \ {w} : wargs[v].month # wargs[w].month) => Persisted(w)

\* the complete logs there have been: the one the runs started from and the
\* ones they have written or are writing
CompleteLogs ==
    {SortDesc(DEFAULT_SMP_DATA)}
        \cup {wdata[w] : w \in {v \in Writers : wpc[v] \in {"dump", "ok"}}}

\* C12: a reader gets a complete log, the one from before a write or the one
\* from after it, never an empty or partly written one.
C12_AtomicReplace ==
    /\ rd.done => rd.ok /\ rd.recs \in CompleteLogs
    /\ \A w \in Writers : wpc[w] # "JSONDecodeError"

(***************************************************************************)
(* The report generator (scripts/generate-dossier.py).  build_dossier      *)
(* copies PROSPECT, overrides smp_floor from the price history and hands   *)
(* the copy p to the section functions, each of which puts its tables on   *)
(* the page.  A section is taken here as the function of p it is: `out`    *)
(* holds the numbers and words it prints, or the exception it raises.      *)
(* The layout (fonts, colours, the PDF itself) is left out.                *)
(***************************************************************************)
\* int(n * f) for an int n and a float f >= 0: int() drops the fraction
IntTimes(n, f) ==
    IF n < 0 THEN 0 - FTrunc(FMul(FInt(0 - n), f)) ELSE FTrunc(FMul(FInt(n), f))

\* build_dossier, lines 1746-1751: the profile of the build
\* the override written to the global: p = PROSPECT, without the copy
build_profile_in_place(g, smp_stats) ==
    IF smp_stats.count > 0
    THEN [p |-> [g EXCEPT !.smp_floor = FRoundDec(smp_stats.avg, 10000)],
          PROSPECT |-> [g EXCEPT !.smp_floor = FRoundDec(smp_stats.avg, 10000)]]
    ELSE [p |-> g, PROSPECT |-> g]

\* p = dict(PROSPECT) and the override of p["smp_floor"]; g is the global
\* PROSPECT, which the copy leaves as it is
build_profile(g, smp_stats) ==
    IF smp_stats.count > 0
    THEN [p |-> [g EXCEPT !.smp_floor = FRoundDec(smp_stats.avg, 10000)], PROSPECT |-> g]
    ELSE [p |-> g, PROSPECT |-> g]

\* section_eligibility: the Status column of the five criteria, the maximum
\* demand quoted in the Detail column, and the verdict paragraph
section_eligibility(q) ==
    [raised |-> "none",
     val |-> [status |-> <<"PASS", "PASS", "PASS", "NOTE", "PASS">>,
              md_kw |-> q.md_kw,
              verdict |-> "ATAP ELIGIBLE"]]

\* section_sizing with the range taken as 75-105% of the maximum demand
section_sizing_wide_range(q) ==
    [raised |-> "none",
     val |-> [md_kw |-> q.md_kw,
              cap |-> q.md_kw,
              range_low |-> IntTimes(q.md_kw, Dec(7500)),
              range_high |-> IntTimes(q.md_kw, Dec(10500)),
              size_kwp |-> q.size_kwp]]

\* section_sizing: the Value column of the sizing table; cap is the figure
\* after "Whichever is lower ="
section_sizing(q) ==
    [raised |-> "none",
     val |-> [md_kw |-> q.md_kw,
              cap |-> q.md_kw,
              range_low |-> IntTimes(q.md_kw, Dec(7500)),
              range_high |-> IntTimes(q.md_kw, Dec(8500)),
              size_kwp |-> q.size_kwp]]

(***************************************************************************)
(* section_financial: the three rows of the savings table and the payback  *)
(* range.  A row is the self-consumed and exported energy (ints), the      *)
(* annual savings (a float), the savings as printed by ,.0f and the        *)
(* payback capex_mid / savings with its .1f text in tenths of a year.      *)
(* Dividing by savings of 0.0 raises ZeroDivisionError.                    *)
(***************************************************************************)
ScenarioRow(q, self, exp, sav) ==
    [self |-> self, exp |-> exp, sav |-> sav,
     zero |-> sav.hi = 0,
     shown |-> FRoundDec(sav, 1),
     payback |-> IF sav.hi = 0 THEN FZero ELSE FDiv(FInt(q.capex_mid), sav)]

\* the savings of a row with the export valued at the tariff
ScenarioOf_export_at_tariff(q, self, exp) ==
    ScenarioRow(q, self, exp,
                FAdd(FMul(FInt(self), Dec(q.blended_tariff)),
                     FMul(FInt(exp), Dec(q.blended_tariff))))

\* sav_X = self_X * p["blended_tariff"] + exp_X * p["smp_floor"]
ScenarioOf(q, self, exp) ==
    ScenarioRow(q, self, exp,
                FAdd(FMul(FInt(self), Dec(q.blended_tariff)),
                     FMul(FInt(exp), Dec(q.smp_floor))))

\* the split of a row with the export taken as its own share of the generation
Split_export_by_share(q, frac) ==
    <<IntTimes(q.annual_gen_kwh, Dec(frac)), IntTimes(q.annual_gen_kwh, Dec(10000 - frac))>>

\* self_X = int(p["annual_gen_kwh"] * 0.X0); exp_X = p["annual_gen_kwh"] - self_X
Split(q, frac) ==
    <<IntTimes(q.annual_gen_kwh, Dec(frac)),
      q.annual_gen_kwh - IntTimes(q.annual_gen_kwh, Dec(frac))>>

Scenario(q, frac) == ScenarioOf(q, Split(q, frac)[1], Split(q, frac)[2])

\* the tenths of a year printed for capex / sav
PaybackShown(capex, sav) == FRoundDec(FDiv(FInt(capex), sav), 10)

FinancialRows(q, r70, r80, r90) ==
    IF r70.zero \/ r80.zero \/ r90.zero
    THEN [raised |-> "ZeroDivisionError", val |-> <<>>]
    ELSE [raised |-> "none",
          val |-> [rows |-> <<r70, r80, r90>>,
                   payback_shown |-> <<FRoundDec(r70.payback, 10),
                                       FRoundDec(r80.payback, 10),
                                       FRoundDec(r90.payback, 10)>>,
                   range_low |-> PaybackShown(q.capex_low, r80.sav),
                   range_high |-> PaybackShown(q.capex_high, r80.sav)]]

section_financial(q) ==
    FinancialRows(q, Scenario(q, 7000), Scenario(q, 8000), Scenario(q, 9000))

(***************************************************************************)
(* build_cashflow_drawing (the chart of section_cashflow): the cumulative  *)
(* cash position of years 0..25, the points plotted (in thousands), and    *)
(* the breakeven marker.                                                   *)
(***************************************************************************)
\* for yr in range(1, 26)
Years == 25

\* (1 - degradation) ** (yr - 1) at index yr, degradation = 0.005
DegradationPow == Powers(FSub(FInt(1), Dec(50)), Years).seq

\* annual_savings, lines 366-367
annual_savings(q) ==
    FAdd(FMul(FDivInt(FInt(q.annual_gen_kwh * q.self_consumption_pct), 100),
              Dec(q.blended_tariff)),
         FMul(FMul(FInt(q.annual_gen_kwh),
                   FSub(FInt(1), FDivInt(FInt(q.self_consumption_pct), 100))),
              Dec(q.smp_floor)))

\* the step with the savings of year yr degraded yr times
CumulativeStep_degraded_early(cum, annual, pow) ==
    Append(cum, SAdd(cum[Len(cum)],
                     SNum(FALSE, FMul(annual, FMul(pow[Len(cum)], pow[2])))))

\* lines 374-376 for yr = Len(cum): cumulative += annual_savings *
\* (1 - degradation) ** (yr - 1); cum holds cumulative of the years 0 .. yr - 1
CumulativeStep(cum, annual, pow) ==
    Append(cum, SAdd(cum[Len(cum)], SNum(FALSE, FMul(annual, pow[Len(cum)]))))

\* the loop of lines 373-376, n years on
RECURSIVE Cumulative(_, _, _, _)
Cumulative(cum, annual, pow, n) ==
    IF n = 0 \/ Len(pow) = 0 \/ Len(cum) = 0 \/ annual.hi < 0 THEN cum
    ELSE IF n = 1 THEN CumulativeStep(cum, annual, pow)
    ELSE Cumulative(Cumulative(cum, annual, pow, n \div 2), annual, pow, n - (n \div 2))

\* points: (yr, cumulative / 1000) at index yr + 1
Points(cum) == [i \in 1..Len(cum) |-> SDivInt(cum[i], 1000)]

\* the loop of lines 380-386: the first i with points[i][1] >= 0 and
\* points[i-1][1] < 0 (as an index here, one more than in the code), 0 if none
Crossing(points) ==
    IF \E i \in 2..Len(points) : ~points[i].neg /\ points[i - 1].neg
    THEN CHOOSE i \in 2..Len(points) :
             /\ ~points[i].neg /\ points[i - 1].neg
             /\ \A j \in 2..(i - 1) : ~(~points[j].neg /\ points[j - 1].neg)
    ELSE 0

\* the interpolation with the share of the later point
Interpolate_later_share(x0, y0, y1) ==
    FAdd(FInt(x0), FMul(FDiv(y1.mag, FAdd(y1.mag, y0.mag)), FInt(1)))

\* breakeven_yr = x0 + (-y0) / (y1 - y0) * (x1 - x0), with x1 - x0 = 1
Interpolate(x0, y0, y1) ==
    FAdd(FInt(x0), FMul(FDiv(y0.mag, FAdd(y1.mag, y0.mag)), FInt(1)))

Breakeven(points, i) ==
    IF i = 0 THEN [found |-> FALSE, at |-> 0, yr |-> FZero, shown |-> 0]
    ELSE [found |-> TRUE, at |-> i,
          yr |-> Interpolate(i - 2, points[i - 1], points[i]),
          shown |-> FRoundDec(Interpolate(i - 2, points[i - 1], points[i]), 10)]

CashflowOf(annual, cum) ==
    [raised |-> "none",
     val |-> [annual_savings |-> annual,
              cumulative |-> cum,
              points |-> Points(cum),
              breakeven |-> Breakeven(Points(cum), Crossing(Points(cum)))]]

build_cashflow_drawing(q) ==
    CashflowOf(annual_savings(q),
               Cumulative(<<SNum(TRUE, FInt(q.capex_mid))>>, annual_savings(q),
                          DegradationPow, Years))

\* section_cashflow, lines 1406-1408: annual (the same expression again) and
\* cumulative_25 = sum(annual * (1 - 0.005) ** yr for yr in range(25)) - capex_mid
RECURSIVE SumDegraded(_, _, _, _, _)
SumDegraded(acc, annual, pow, from, n) ==
    IF n = 0 \/ Len(pow) = 0 \/ acc.hi < 0 \/ annual.hi < 0 THEN acc
    ELSE IF n = 1 THEN FAdd(acc, FMul(annual, pow[from]))
    ELSE SumDegraded(SumDegraded(acc, annual, pow, from, n \div 2),
                     annual, pow, from + (n \div 2), n - (n \div 2))

cumulative_25(annual, capex, pow) ==
    SAdd(SNum(FALSE, SumDegraded(FZero, annual, pow, 1, Years)), SNum(TRUE, FInt(capex)))

\* the chart and the sentence under it, with cumulative_25 / 1000 as ,.0f prints it
CashflowText(chart, net) ==
    [raised |-> chart.raised,
     val |-> [chart |-> chart.val,
              cumulative_25 |-> net,
              shown |-> [neg |-> net.neg, k |-> FRoundDec(FDivInt(net.mag, 1000), 1)]]]

section_cashflow(q) ==
    CashflowText(build_cashflow_drawing(q),
                 cumulative_25(annual_savings(q), q.capex_mid, DegradationPow))

(***************************************************************************)
(* section_smp_sensitivity: the table of annual savings and payback at     *)
(* five import prices around the base price, and the resilience paragraph. *)
(* The two charts of the section print nothing the table does not hold and *)
(* are left out.                                                           *)
(***************************************************************************)
\* the float of a decimal with two places, k in units of 0.01
Dec2(k) == FDivInt(FInt(k), 100)

\* the hundredths of round(x, 2)
Round2(x) == FRoundDec(x, 100)

\* abs(x - y)
FAbsDiff(x, y) == IF FLe(y, x) THEN FSub(x, y) ELSE FSub(y, x)

\* max(0.10, smp_floor - 0.05): the first argument unless the second is greater
LowRate(f) ==
    IF FLt(Dec2(10), f) /\ FLt(Dec2(10), FSub(f, Dec2(5))) THEN FSub(f, Dec2(5))
    ELSE Dec2(10)

\* min(0.40, smp_floor + 0.20): the first argument unless the second is smaller
HighRate(f) ==
    IF FLt(FAdd(f, Dec2(20)), Dec2(40)) THEN FAdd(f, Dec2(20)) ELSE Dec2(40)

\* sorted(...) of a set of ints
RECURSIVE SortedInts(_)
SortedInts(S) ==
    IF S = {} THEN <<>>
    ELSE <<CHOOSE x \in S : \A y \in S : x <= y>>
         \o SortedInts(S \ {CHOOSE x \in S : \A y \in S : x <= y})

\* smp_rates, lines 1480-1488, in hundredths: sorted(set(round(r, 2) ...))
smp_rates(f) ==
    SortedInts({Round2(LowRate(f)), Round2(f), Round2(FAdd(f, Dec2(5))),
                Round2(FAdd(f, Dec2(10))), Round2(HighRate(f))})

\* self_kwh, export_kwh, self_savings of lines 1474-1476
sens_self_savings(q) ==
    FMul(FDivInt(FInt(q.annual_gen_kwh * q.self_consumption_pct), 100),
         Dec(q.blended_tariff))

sens_export_kwh(q) ==
    FMul(FInt(q.annual_gen_kwh),
         FSub(FInt(1), FDivInt(FInt(q.self_consumption_pct), 100)))

\* self_savings + export_kwh * rate
total_savings(self_savings, export_kwh, rate) == FAdd(self_savings, FMul(export_kwh, rate))

\* delta = export_kwh * (rate - smp_floor) as ,.0f prints it
DeltaShown(export_kwh, f, rate) ==
    IF FLe(f, rate) THEN FRoundDec(FMul(export_kwh, FSub(rate, f)), 1)
    ELSE 0 - FRoundDec(FMul(export_kwh, FSub(f, rate)), 1)

\* one row of the loop of lines 1493-1505, for the rate and its total
SensitivityRow(capex, export_kwh, f, k, rate, total) ==
    [rate |-> k,
     total |-> total,
     total_shown |-> FRoundDec(total, 1),
     export_shown |-> FRoundDec(FMul(export_kwh, rate), 1),
     delta_shown |-> DeltaShown(export_kwh, f, rate),
     zero |-> total.hi = 0,
     payback_shown |-> IF total.hi = 0 THEN 0 ELSE PaybackShown(capex, total),
     is_base |-> FLt(FAbsDiff(rate, f), Dec(50))]

\* the rows of the rates i, i + 1, ... of smp_rates
RECURSIVE SensitivityRows(_, _, _, _, _, _)
SensitivityRows(capex, self_savings, export_kwh, f, rates, i) ==
    IF i > Len(rates) THEN <<>>
    ELSE <<SensitivityRow(capex, export_kwh, f, rates[i], Dec2(rates[i]),
                          total_savings(self_savings, export_kwh, Dec2(rates[i])))>>
         \o SensitivityRows(capex, self_savings, export_kwh, f, rates, i + 1)

\* base_row_idx = next((i + 1 for i, r in enumerate(smp_rates) if is_base), 2):
\* the row of the table under its header row
BaseRowIdx(rows) ==
    IF \E i \in 1..Len(rows) : rows[i].is_base
    THEN CHOOSE i \in 1..Len(rows) :
             rows[i].is_base /\ \A j \in 1..(i - 1) : ~rows[j].is_base
    ELSE 2

\* lines 1524-1549: the swing of the export income over the band of the
\* history and the payback at its two ends
Resilience(smp_swing, base_savings, payback_at_min, payback_at_max) ==
    [swing_shown |-> FRoundDec(smp_swing, 1),
     pct_shown |-> FRoundDec(FMul(FDiv(smp_swing, base_savings), FInt(100)), 10),
     payback_at_min |-> payback_at_min,
     payback_at_max |-> payback_at_max,
     payback_delta |-> FAbsDiff(payback_at_min, payback_at_max),
     verdict |-> "robust"]

\* the tables of the section, or the division by a total of zero that is
\* raised at line 1503, 1525, 1540 or 1541
SensitivityTables(capex, export_kwh, st, rows, base_savings, at_min, at_max) ==
    IF \/ \E i \in 1..Len(rows) : rows[i].zero
       \/ base_savings.hi = 0 \/ at_min.hi = 0 \/ at_max.hi = 0
    THEN [raised |-> "ZeroDivisionError", val |-> <<>>]
    ELSE [raised |-> "none",
          val |-> [avg |-> st.avg, min |-> st.min, max |-> st.max,
                   smp_floor |-> Round2(st.avg),
                   base_savings |-> base_savings,
                   rows |-> rows,
                   base_row_idx |-> BaseRowIdx(rows),
                   resilience |-> Resilience(FMul(export_kwh, FSub(st.max, st.min)),
                                             base_savings,
                                             FDiv(FInt(capex), at_min),
                                             FDiv(FInt(capex), at_max))]]

SensitivityOf(capex, self_savings, export_kwh, st, f) ==
    SensitivityTables(capex, export_kwh, st,
                      SensitivityRows(capex, self_savings, export_kwh, f, smp_rates(f), 1),
                      total_savings(self_savings, export_kwh, f),
                      total_savings(self_savings, export_kwh, st.min),
                      total_savings(self_savings, export_kwh, st.max))

\* section_smp_sensitivity(p, smp_stats) with smp_floor = round(smp_avg, 2)
section_smp_sensitivity(q, st) ==
    SensitivityOf(q.capex_mid, sens_self_savings(q), sens_export_kwh(q), st,
                  Dec2(Round2(st.avg)))

(***************************************************************************)
(* Reports.  Either build_dossier runs on a price history (pc = "build")   *)
(* and its sections are built from the profile it made, or one section     *)
(* function is called with a profile of its caller's own (pc = "section"). *)
(***************************************************************************)
\* a history of estimated prices for the months before 2026-02, latest first
ReportHistory(units) ==
    SortDesc([i \in 1..Len(units) |-> Seed(Ym(2026, i), units[i])])

\* smp_history.json when build_dossier runs
ReportFiles ==
    {NoFile, FileOf(SortDesc(DEFAULT_SMP_DATA)),
     FileOf(ReportHistory(<<2000>>)),
     FileOf(ReportHistory(<<1000, 2000, 2000>>)),
     FileOf(ReportHistory(<<1000, 1000, 2000>>)),
     FileOf(ReportHistory(<<1000>>)),
     FileOf(ReportHistory(<<500, 500>>)),
     FileOf(ReportHistory(<<500, 8000>>)),
     FileOf(ReportHistory(<<8000, 8000, 8000>>))}

\* the history with the widest band of prices the updater accepts
WideBand == FileOf(ReportHistory(<<500, 8000>>))

\* the profiles the section functions are called with: PROSPECT with one or
\* two fields changed
Profiles ==
    {PROSPECT}
    \cup {[PROSPECT EXCEPT !.md_kw = m] : m \in {0 - 10, 0, 999, 1000, 2000}}
    \cup {[PROSPECT EXCEPT !.size_kwp = 400]}
    \cup {[PROSPECT EXCEPT !.annual_gen_kwh = g] : g \in {0, 1, 7, 10, 455000, 999999}}
    \cup {[PROSPECT EXCEPT !.smp_floor = u] : u \in {0, 1667, 8000}}
    \cup {[PROSPECT EXCEPT !.blended_tariff = 0, !.smp_floor = 0]}
    \cup {[PROSPECT EXCEPT !.self_consumption_pct = c] : c \in {0, 100}}
    \cup {[PROSPECT EXCEPT !.capex_mid = c] : c \in {0, 100000, 5000000}}
    \cup {[PROSPECT EXCEPT !.annual_gen_kwh = 1000, !.self_consumption_pct = 100,
                           !.capex_mid = 334]}

InitReport ==
    /\ \/ pc = "build" /\ file \in ReportFiles /\ p = PROSPECT
       \/ pc = "section" /\ file = NoFile /\ p \in Profiles
       \/ /\ pc = "section" /\ file = WideBand
          /\ p \in {[PROSPECT EXCEPT !.self_consumption_pct = c] : c \in {0, 80, 100}}
    /\ out = NoOut
    /\ data = <<>>
    /\ args = NoArgs
    /\ exit = "none"
    /\ clock = 0
    /\ pre = [file |-> NoFile, data |-> <<>>]
    /\ ustats = NoStats
    /\ dstats = NoDossierStats
    /\ months = DefaultMonths
    /\ DosIdle
    /\ ConcIdle

\* build_dossier, lines 1746-1751
BuildDossier ==
    /\ pc = "build"
    /\ dstats' = dossier_get_smp_stats(file, DefaultMonths)
    /\ p' = build_profile(prospect, dossier_get_smp_stats(file, DefaultMonths)).p
    /\ prospect' = build_profile(prospect, dossier_get_smp_stats(file, DefaultMonths)).PROSPECT
    /\ pc' = "built"
    /\ UNCHANGED <<file, data, args, exit, clock, pre, ustats, months, out>>
    /\ UNCHANGED <<HAS_IMAGE_DEPS, argv, world, story, effects, builds>>
    /\ UNCHANGED concvars

\* what a section leaves on the page
Page(name, r) == [section |-> name, raised |-> r.raised, val |-> r.val]

\* a section can be built: the profile is there and no section was built yet
Ready == pc \in {"built", "section"} /\ out = NoOut

SectionEligibility ==
    /\ Ready
    /\ out' = Page("eligibility", section_eligibility(p))
    /\ UNCHANGED <<file, data, args, pc, exit, clock, pre, ustats, dstats, months, p>>
    /\ UNCHANGED dosvars
    /\ UNCHANGED concvars

SectionSizing ==
    /\ Ready
    /\ out' = Page("sizing", section_sizing(p))
    /\ UNCHANGED <<file, data, args, pc, exit, clock, pre, ustats, dstats, months, p>>
    /\ UNCHANGED dosvars
    /\ UNCHANGED concvars

SectionFinancial ==
    /\ Ready
    /\ out' = Page("financial", section_financial(p))
    /\ UNCHANGED <<file, data, args, pc, exit, clock, pre, ustats, dstats, months, p>>
    /\ UNCHANGED dosvars
    /\ UNCHANGED concvars

SectionCashflow ==
    /\ Ready
    /\ out' = Page("cashflow", section_cashflow(p))
    /\ UNCHANGED <<file, data, args, pc, exit, clock, pre, ustats, dstats, months, p>>
    /\ UNCHANGED dosvars
    /\ UNCHANGED concvars

\* section_smp_sensitivity(p, smp_stats): build_dossier passes the statistics
\* it read, a caller that passes none has them read by the section
SectionSensitivity ==
    /\ Ready
    /\ out' = Page("smp_sensitivity",
                   section_smp_sensitivity(p, IF pc = "built" THEN dstats
                                              ELSE dossier_get_smp_stats(file, DefaultMonths)))
    /\ UNCHANGED <<file, data, args, pc, exit, clock, pre, ustats, dstats, months, p>>
    /\ UNCHANGED dosvars
    /\ UNCHANGED concvars

NextReport ==
    \/ BuildDossier
    \/ SectionSensitivity
    \/ SectionEligibility
    \/ SectionSizing
    \/ SectionFinancial
    \/ SectionCashflow

SpecReport == InitReport /\ [][NextReport]_vars

(***************************************************************************)
(* Properties of the report sections.                                      *)
(***************************************************************************)
\* the ATAP ceiling of 1 MW in kW ("capped at 1MW", "Maximum Demand < 1MW")
CeilingKw == 1000

Built(name) == pc = "built" /\ out.section = name

C14_InvalidProfileRejected ==
    (out.section = "sizing" /\ p.md_kw <= 0) => out.raised = "InvalidProfileError"

\* C15: the eligibility statuses come from the profile: the maximum-demand
\* criterion passes exactly when the maximum demand is below 1 MW, and the
\* verdict is ELIGIBLE only when no hard criterion fails.
C15_StatusFromProfile ==
    out.section = "eligibility" =>
        /\ Len(out.val.status) = 5
        /\ out.val.status[2] = "PASS" <=> p.md_kw < CeilingKw
        /\ out.val.verdict = "ATAP ELIGIBLE" => p.md_kw < CeilingKw

Scenarios == <<7000, 8000, 9000>>

\* the savings and the payback of a row as the formula gives them, the export
\* valued at the price `smp`
SavingsAt(row, smp) ==
    FAdd(FMul(FInt(row.self), Dec(p.blended_tariff)), FMul(FInt(row.exp), smp))

FinancialBuilt == out.section = "financial" /\ out.raised = "none"

\* C16: for every annual generation and each of the three scenarios, the
\* self-consumed and the exported energy add up to the generation exactly,
\* and these are the two figures of the scenario's row.
C16_EnergyConserved ==
    out.section = "financial" =>
        \A k \in 1..3 :
            /\ Split(p, Scenarios[k])[1] + Split(p, Scenarios[k])[2] = p.annual_gen_kwh
            /\ out.raised = "none" =>
                   /\ out.val.rows[k].self = Split(p, Scenarios[k])[1]
                   /\ out.val.rows[k].exp = Split(p, Scenarios[k])[2]
                   /\ out.val.rows[k].self + out.val.rows[k].exp = p.annual_gen_kwh

\* the table of the default profile: 254,799 + 109,201 and 291,200 + 72,800
C16_Witness ==
    /\ FinancialBuilt
    /\ p.annual_gen_kwh = 364000
    /\ out.val.rows[1].self = 254799 /\ out.val.rows[1].exp = 109201
    /\ out.val.rows[2].self = 291200 /\ out.val.rows[2].exp = 72800

C18_NoDivisionByZero ==
    out.section = "financial" => out.raised # "ZeroDivisionError"

Chart == out.val.chart

CrossesAt(i) == ~Chart.points[i].neg /\ Chart.points[i - 1].neg

HasCrossing == \E i \in 2..(Years + 1) : CrossesAt(i)

\* the marker is at the first crossing
AtFirstCrossing ==
    /\ Chart.breakeven.at \in 2..(Years + 1)
    /\ CrossesAt(Chart.breakeven.at)
    /\ \A j \in 2..(Chart.breakeven.at - 1) : ~CrossesAt(j)

\* the years of the two points around the marker
X0 == Chart.breakeven.at - 2
X1 == Chart.breakeven.at - 1

SensitivityBuilt == out.section = "smp_sensitivity" /\ out.raised = "none"

Rows == out.val.rows

\* C21: for every average in [0.05, 0.80] the price points of the sensitivity
\* table are pairwise distinct and ascending, exactly one row is the base row
\* and it is the average, a point lies strictly below and a point strictly
\* above the average, and the highest price of the history is covered by the
\* points.
C21_PointsBracketAverage ==
    SensitivityBuilt =>
        /\ \A i \in 1..(Len(Rows) - 1) : Rows[i].rate < Rows[i + 1].rate
        /\ Cardinality({i \in 1..Len(Rows) : Rows[i].is_base}) = 1
        /\ \A i \in 1..Len(Rows) : Rows[i].is_base => Rows[i].rate = Round2(out.val.avg)
        /\ \E i \in 1..Len(Rows) : Rows[i].rate < Round2(out.val.avg)
        /\ \E i \in 1..Len(Rows) : Rows[i].rate > Round2(out.val.avg)
        /\ FLe(out.val.max, Dec2(Rows[Len(Rows)].rate))

\* C22: the resilience verdict is conditional: the case is called "robust"
\* only when |payback at min - payback at max| is below a threshold, and
\* gets another verdict otherwise.  The code has no threshold; whatever the
\* threshold is, it is not above the 25 years the report projects.
C22_VerdictConditional ==
    SensitivityBuilt =>
        (out.val.resilience.verdict = "robust"
            => FLt(out.val.resilience.payback_delta, FInt(Years)))

\* C28: within one report the base row of the sensitivity table shows the
\* same total annual savings and the same payback as the 80% row of the
\* financial projection, and the same savings as those that drive the
\* cashflow series.
C28_BaseCaseSame ==
    (Built("smp_sensitivity") /\ out.raised = "none") =>
        /\ Rows[out.val.base_row_idx].is_base
        /\ Rows[out.val.base_row_idx].total_shown = section_financial(p).val.rows[2].shown
        /\ Rows[out.val.base_row_idx].payback_shown
               = section_financial(p).val.payback_shown[2]
        /\ Rows[out.val.base_row_idx].total_shown = FRoundDec(annual_savings(p), 1)

(***************************************************************************)
(* The two get_smp_stats side by side.                                     *)
(***************************************************************************)
\* the dict u of the updater holds the six numbers of the dict d of the
\* report generator
SameStats(u, d) ==
    /\ {"avg", "min", "max", "count", "latest", "latest_month"} \subseteq u.keys
    /\ u.avg = d.avg /\ u.min = d.min /\ u.max = d.max /\ u.count = d.count
    /\ u.latest = d.latest /\ u.latest_month = d.latest_month

\* C27: for the same log and the same window, get_smp_stats of the updater
\* and get_smp_stats of the report generator return equal avg, min, max,
\* count, latest and latest_month, for logs that are empty or not.
C27_StatsAgree ==
    /\ pc = "fn_stats" => SameStats(ustats, dossier_get_smp_stats(file, months))
    /\ pc = "fn_dossier" => SameStats(get_smp_stats(file.recs, months), dstats)

(***************************************************************************)
(* generate-dossier.py as a program: the module is loaded, then either     *)
(* its __main__ block runs on a command line (world.main) or a program     *)
(* that imported it calls build_dossier, more than once if it likes, while *)
(* smp-update.py may rewrite the history between two builds.  A page of    *)
(* the story is the section that made it, the blocks it holds that differ  *)
(* from tier to tier or with the imagery, and the numbers it prints from   *)
(* its own arithmetic; the numbers of the eligibility, sizing, financial,  *)
(* cashflow and smp_sensitivity pages are those of the section functions   *)
(* above applied to the profile p and the statistics dstats of the build.  *)
(***************************************************************************)
\* the texts "basic", "pro" and "premium"
Basic == <<50, 49, 67, 57, 51>>
Pro == <<64, 66, 63>>
Premium == <<64, 66, 53, 61, 57, 69, 61>>

\* ("basic", "pro", "premium")
Tiers == {Basic, Pro, Premium}

\* str.lower(): the codes of "A".."Z" are 17..42, those of "a".."z" 49..74
lower(s) == [i \in 1..Len(s) |-> IF s[i] \in 17..42 THEN s[i] + 32 ELSE s[i]]

\* Python truth of a text or None
Truthy(s) == s # None /\ s # <<>>

\* float(t) returns for a decimal numeral: digits with at most one "." (code
\* -2) among them, after an optional "-" (code -3); for the other texts
\* tried here it raises ValueError
FloatOk(t) ==
    LET d == IF t # <<>> /\ t[1] = -3 THEN SubSeq(t, 2, Len(t)) ELSE t
    IN  /\ \E i \in 1..Len(d) : IsDigit(d[i])
        /\ \A i \in 1..Len(d) : IsDigit(d[i]) \/ d[i] = -2
        /\ Cardinality({i \in 1..Len(d) : d[i] = -2}) <= 1

\* Python truth of lat and lng: None and 0.0 are false; a float is kept as
\* the numeral it was read from
FloatTruthy(x) == x # None /\ \E i \in 1..Len(x) : x[i] \in 1..9

\* lines 1884-1889: lat and lng of the command line
ParseCoords(lat_str, lng_str) ==
    IF ~(Truthy(lat_str) /\ Truthy(lng_str)) THEN [lat |-> None, lng |-> None]
    ELSE IF ~FloatOk(lat_str) THEN [lat |-> None, lng |-> None]
    ELSE IF ~FloatOk(lng_str) THEN [lat |-> lat_str, lng |-> None]
    ELSE [lat |-> lat_str, lng |-> lng_str]

\* math.ceil(x) of a float x >= 0
PyCeil(x) == IF FInt(FTrunc(x)) = x THEN FTrunc(x) ELSE FTrunc(x) + 1

\* panels_needed = math.ceil(p["size_kwp"] * 1000 / 550)
panels_needed(q) == PyCeil(FDivInt(FInt(q.size_kwp * 1000), 550))

\* the cells of the grid generate_roof_overlay draws, lines 148-150:
\* cols = int(math.sqrt(panels_needed * 1.5)), rows = math.ceil(panels_needed / cols)
GridCells(n) ==
    LET cols == CHOOSE c \in 0..(2 * n) : c * c <= (3 * n) \div 2 /\ (3 * n) \div 2 < (c + 1) * (c + 1)
    IN  cols * ((n + cols - 1) \div cols)

DossierPage(name, blocks, val, image) ==
    [section |-> name, blocks |-> blocks, val |-> val, image |-> image]

\* section_cover: the second title, the subtitle and the footer label
section_cover(tier) ==
    DossierPage("cover",
                IF tier = Basic
                THEN <<"Quick Fit Snapshot", "Preliminary Solar Suitability Check",
                       "Non-binding indicative assessment">>
                ELSE IF tier = Pro
                THEN <<"Feasibility Assessment", "Pre-Engineering Financial & Policy Review",
                       "Confidential - Prepared for internal decision-making">>
                ELSE <<"Intelligence Dossier", "Independent Roof & Energy Feasibility Analysis",
                       "Decision-grade strategic report">>,
                <<>>, FALSE)

\* section_executive_snapshot: the grid of key numbers (size, the savings
\* range and the payback range in tenths, both literals, and the export
\* exposure); the paragraphs around it depend on the tier
section_executive_snapshot(q, tier) ==
    DossierPage("executive_snapshot",
                IF tier = Basic
                THEN <<"Preliminary assessment", "kpi", "This snapshot is based on", "To proceed">>
                ELSE <<"kpi", "traffic lights">>,
                <<q.size_kwp, 108181, 126381, 45, 53, 100 - q.self_consumption_pct>>,
                FALSE)

\* section_roof_intelligence: the image or the placeholder, then the roof data
section_roof_intelligence(q, sat_image) ==
    DossierPage("roof_intelligence",
                <<IF sat_image THEN "satellite image" ELSE "placeholder">>,
                <<q.roof_sqft, IntTimes(q.roof_sqft, Dec(11000)), q.roof_sqft>>,
                sat_image)

\* the panel count read off the grid of the overlay when there is one
section_layout_concept_grid_count(q, overlay_image) ==
    DossierPage("layout_concept",
                <<IF overlay_image THEN "overlay image" ELSE "placeholder">>,
                <<IF overlay_image THEN GridCells(panels_needed(q)) ELSE panels_needed(q)>>,
                overlay_image)

\* section_layout_concept: the overlay or the placeholder, then the panel count
section_layout_concept(q, overlay_image) ==
    DossierPage("layout_concept",
                <<IF overlay_image THEN "overlay image" ELSE "placeholder">>,
                <<panels_needed(q)>>,
                overlay_image)

\* pro with the roadmap left out
SectionCalls_pro_without_roadmap(tier) ==
    <<"cover", "executive_snapshot">>
    \o (IF tier = Basic THEN <<"eligibility", "roadmap", "disclaimer">>
        ELSE IF tier = Pro
        THEN <<"facility_intelligence", "eligibility", "sizing", "energy_flow",
               "load_profile", "financial", "cashflow", "smp_sensitivity", "forfeiture",
               "disclaimer">>
        ELSE <<"methodology", "facility_intelligence", "roof_intelligence",
               "layout_concept", "eligibility", "sizing", "energy_flow", "load_profile",
               "financial", "cashflow", "smp_sensitivity", "forfeiture", "carbon_esg",
               "roadmap", "strategic_recommendation", "disclaimer">>)

\* premium with the eligibility ahead of the facility overview
SectionCalls_premium_eligibility_first(tier) ==
    <<"cover", "executive_snapshot">>
    \o (IF tier = Basic THEN <<"eligibility", "roadmap", "disclaimer">>
        ELSE IF tier = Pro
        THEN <<"facility_intelligence", "eligibility", "sizing", "energy_flow",
               "load_profile", "financial", "cashflow", "smp_sensitivity", "forfeiture",
               "roadmap", "disclaimer">>
        ELSE <<"methodology", "eligibility", "facility_intelligence", "roof_intelligence",
               "layout_concept", "sizing", "energy_flow", "load_profile",
               "financial", "cashflow", "smp_sensitivity", "forfeiture", "carbon_esg",
               "roadmap", "strategic_recommendation", "disclaimer">>)

\* build_dossier, lines 1784-1849: the section functions called, in order
SectionCalls(tier) ==
    <<"cover", "executive_snapshot">>
    \o (IF tier = Basic THEN <<"eligibility", "roadmap", "disclaimer">>
        ELSE IF tier = Pro
        THEN <<"facility_intelligence", "eligibility", "sizing", "energy_flow",
               "load_profile", "financial", "cashflow", "smp_sensitivity", "forfeiture",
               "roadmap", "disclaimer">>
        ELSE <<"methodology", "facility_intelligence", "roof_intelligence",
               "layout_concept", "eligibility", "sizing", "energy_flow", "load_profile",
               "financial", "cashflow", "smp_sensitivity", "forfeiture", "carbon_esg",
               "roadmap", "strategic_recommendation", "disclaimer">>)

\* the page a call leaves in the story
PageOf(name, tier, q, sat_image, overlay_image) ==
    IF name = "cover" THEN section_cover(tier)
    ELSE IF name = "executive_snapshot" THEN section_executive_snapshot(q, tier)
    ELSE IF name = "roof_intelligence" THEN section_roof_intelligence(q, sat_image)
    ELSE IF name = "layout_concept" THEN section_layout_concept(q, overlay_image)
    ELSE DossierPage(name, <<>>, <<>>, FALSE)

Pages(tier, q, sat_image, overlay_image) ==
    [i \in 1..Len(SectionCalls(tier)) |->
        PageOf(SectionCalls(tier)[i], tier, q, sat_image, overlay_image)]

\* lines 1771-1780: fetch_satellite_image is called, and what it returns:
\* the image, or None when requests.get or the decoding raised
Imagery(tier, lat, lng, api_key, deps, answer) ==
    IF tier = Premium /\ FloatTruthy(lat) /\ FloatTruthy(lng) /\ Truthy(api_key) /\ deps
    THEN answer
    ELSE "none"

\* what a build leaves: the global, the copy p, the statistics, the story
\* and what was done outside the process
BuildOf(profile, smp_stats, tier, sat_img) ==
    [PROSPECT |-> profile.PROSPECT,
     p |-> profile.p,
     smp_stats |-> smp_stats,
     story |->
        IF tier \in Tiers
        THEN [tier |-> tier, raised |-> "none", fetched |-> sat_img,
              pages |-> Pages(tier, profile.p, sat_img = "image", sat_img = "image")]
        ELSE [tier |-> tier, raised |-> "KeyError", fetched |-> "none", pages |-> <<>>],
     effects |->
        <<"makedirs", "read_history">>
        \o (IF sat_img # "none" THEN <<"fetch">> ELSE <<>>)
        \o (IF sat_img = "image" THEN <<"temp_files">> ELSE <<>>)
        \o (IF tier \in Tiers THEN <<"pdf">> ELSE <<>>)]

\* lines 1745-1757 on the statistics read
BuildWith(g, smp_stats, tier, sat_img) ==
    BuildOf(build_profile(g, smp_stats), smp_stats, tier, sat_img)

\* build_dossier(output_path, tier, white_label, lat, lng, api_key) with the
\* global PROSPECT g and the history file f: the directory of the output is
\* made, the statistics are read, the profile is copied and overridden, the
\* image is fetched, the sections are called and the PDF is written.  A tier
\* that is none of the three raises KeyError at titles[tier] of section_cover.
build_dossier(g, f, tier, lat, lng, api_key, deps, answer) ==
    BuildWith(g, dossier_get_smp_stats(f, DefaultMonths), tier,
              Imagery(tier, lat, lng, api_key, deps, answer))

\* the texts "3.0658", "101.5183", "3,06", "0", "KEY", "PRO" and "gold"
Lat1 == <<3, -2, 0, 6, 5, 8>>
Lng1 == <<1, 0, 1, -2, 5, 1, 8, 3>>
BadNumeral == <<3, -4, 0, 6>>
ZeroNumeral == <<0>>
Key == <<27, 21, 41>>
ProUpper == <<32, 34, 31>>
Gold == <<55, 63, 60, 52>>

\* what follows --tier: nothing, "", a tier, "PRO", "gold"
TierArgs == {None, <<>>, Basic, Pro, Premium, ProUpper, Gold}

\* what follows --lat and --lng
CoordArgs ==
    {<<None, None>>, <<Lat1, Lng1>>, <<Lat1, None>>, <<BadNumeral, Lng1>>,
     <<Lat1, BadNumeral>>, <<ZeroNumeral, Lng1>>}

\* what follows --api-key, and GOOGLE_MAPS_API_KEY
KeyArgs == {<<None, None>>, <<Key, None>>, <<None, Key>>, <<<<>>, None>>}

\* the command lines tried: every tier argument without imagery arguments,
\* and every combination of imagery arguments with the tiers premium, pro
\* and "gold"
ArgvSet ==
    {[tier |-> t, lat |-> None, lng |-> None, api_key |-> None, env_key |-> None] :
        t \in TierArgs}
    \cup {[tier |-> Premium, lat |-> c[1], lng |-> c[2], api_key |-> k[1], env_key |-> k[2]] :
            c \in CoordArgs, k \in KeyArgs}
    \cup {[tier |-> t, lat |-> Lat1, lng |-> Lng1, api_key |-> Key, env_key |-> None] :
            t \in {Pro, Gold}}

\* the calls of build_dossier tried by a program that imported the module
CallSet ==
    {[tier |-> t, lat |-> None, lng |-> None, api_key |-> None, env_key |-> None] :
        t \in {Basic, Pro, Gold}}
    \cup {[tier |-> t, lat |-> Lat1, lng |-> Lng1, api_key |-> Key, env_key |-> None] :
            t \in {Pro, Premium}}

\* builds of one process
MaxBuilds == 2

\* smp_history.json when generate-dossier.py runs
DossierFiles ==
    {NoFile, FileOf(ReportHistory(<<1000, 1000, 2000>>)), FileOf(ReportHistory(<<2000, 2500>>))}

\* the libraries are installed or not; the interpreter evaluates the
\* annotations of a def when the def is executed, or defers them (Python
\* 3.14); the map service answers with an image or the request fails (an
\* HTTP error, a timeout, no connection)
Worlds ==
    [deps : BOOLEAN, deferred : BOOLEAN, fetch : {"image", "error"}, main : BOOLEAN]

InitDossier ==
    /\ pc = "start"
    /\ file \in DossierFiles
    /\ world \in Worlds
    /\ prospect = PROSPECT
    /\ HAS_IMAGE_DEPS = FALSE
    /\ argv = NoArgv
    /\ story = NoStory
    /\ effects = <<>>
    /\ builds = 0
    /\ p = PROSPECT
    /\ out = NoOut
    /\ data = <<>>
    /\ args = NoArgs
    /\ exit = "none"
    /\ clock = 0
    /\ pre = [file |-> NoFile, data |-> <<>>]
    /\ ustats = NoStats
    /\ dstats = NoDossierStats
    /\ months = DefaultMonths
    /\ ConcIdle

\* the module is executed down to its last def: lines 45-50 set
\* HAS_IMAGE_DEPS; the def of fetch_satellite_image, line 114, has the
\* annotation PILImage.Image | None, a name the failed import left unbound
DossierLoad ==
    /\ pc = "start"
    /\ HAS_IMAGE_DEPS' = world.deps
    /\ IF ~world.deps /\ ~world.deferred
       THEN pc' = "done" /\ exit' = "NameError"
       ELSE pc' = "loaded" /\ exit' = exit
    /\ UNCHANGED <<file, data, args, clock, pre, ustats, dstats, months, p, out>>
    /\ UNCHANGED <<prospect, argv, world, story, effects, builds>>
    /\ UNCHANGED concvars

\* the process after the build r
Build(r) ==
    /\ p' = r.p
    /\ dstats' = r.smp_stats
    /\ prospect' = r.PROSPECT
    /\ story' = r.story
    /\ effects' = effects \o r.effects
    /\ builds' = builds + 1

\* tier = (get_arg("--tier") or "premium").lower()
main_tier(a) == lower(IF Truthy(a.tier) THEN a.tier ELSE Premium)

\* api_key = get_arg("--api-key") or os.environ.get("GOOGLE_MAPS_API_KEY")
main_api_key(a) == IF Truthy(a.api_key) THEN a.api_key ELSE a.env_key

\* the __main__ block, lines 1855-1905
DossierMain ==
    /\ pc = "loaded"
    /\ world.main
    /\ \E a \in ArgvSet :
          /\ argv' = a
          /\ IF main_tier(a) \notin Tiers
             THEN /\ exit' = "exit1"
                  /\ UNCHANGED <<p, dstats, prospect, story, effects, builds>>
             ELSE /\ Build(build_dossier(prospect, file, main_tier(a),
                                         ParseCoords(a.lat, a.lng).lat,
                                         ParseCoords(a.lat, a.lng).lng,
                                         main_api_key(a), HAS_IMAGE_DEPS, world.fetch))
                  /\ exit' = IF story'.raised = "none" THEN "ok" ELSE story'.raised
    /\ pc' = "done"
    /\ UNCHANGED <<file, data, args, clock, pre, ustats, months, out>>
    /\ UNCHANGED <<HAS_IMAGE_DEPS, world>>
    /\ UNCHANGED concvars

\* build_dossier called by a program that imported the module
DossierCall ==
    /\ pc = "loaded"
    /\ ~world.main
    /\ builds < MaxBuilds
    /\ \E a \in CallSet :
          /\ argv' = a
          /\ Build(build_dossier(prospect, file, a.tier, a.lat, a.lng, a.api_key,
                                 HAS_IMAGE_DEPS, world.fetch))
          /\ exit' = IF story'.raised = "none" THEN "ok" ELSE story'.raised
          /\ pc' = IF story'.raised = "none" THEN "loaded" ELSE "done"
    /\ UNCHANGED <<file, data, args, clock, pre, ustats, months, out>>
    /\ UNCHANGED <<HAS_IMAGE_DEPS, world>>
    /\ UNCHANGED concvars

\* smp-update.py rewrites the history between two builds of the process
HistoryUpdated ==
    /\ pc = "loaded"
    /\ ~world.main
    /\ builds \in 1..(MaxBuilds - 1)
    /\ file' \in DossierFiles \ {file}
    /\ UNCHANGED <<data, args, pc, exit, clock, pre, ustats, dstats, months, p, out>>
    /\ UNCHANGED dosvars
    /\ UNCHANGED concvars

NextDossier ==
    \/ DossierLoad
    \/ DossierMain
    \/ DossierCall
    \/ HistoryUpdated

SpecDossier == InitDossier /\ [][NextDossier]_vars

(***************************************************************************)
(* Properties of the dossier program.                                      *)
(***************************************************************************)
\* a run of the __main__ block has ended after reading its command line
MainRan == pc = "done" /\ world.main /\ exit # "NameError"

\* a build has returned its story
StoryBuilt == builds > 0 /\ story.raised = "none"

SectionNames(pages) == {pages[i].section : i \in 1..Len(pages)}

PageNamed(pages, name) == pages[CHOOSE i \in 1..Len(pages) : pages[i].section = name]

\* C24: a run whose --tier argument is a text that, lower-cased, is none of
\* basic, pro and premium ends with exit status 1 before anything of the
\* generation has happened: no directory made, no history read, no PDF
\* written, no story.
C24_InvalidTierHalts ==
    (MainRan /\ argv.tier # None /\ lower(argv.tier) \notin Tiers)
        => exit = "exit1" /\ effects = <<>> /\ story = NoStory /\ builds = 0

\* C25: no failure of the imagery path aborts the program: a run ends with
\* the usage error of an invalid tier or with the report written, and a
\* premium report built without an image carries the placeholder on its
\* roof page and on its layout page.
C25_ImageryDegrades ==
    pc = "done" /\ world.main
        => /\ exit \in {"ok", "exit1"}
           /\ exit = "ok" /\ story.tier = Premium
                => /\ effects[Len(effects)] = "pdf"
                   /\ story.fetched # "image"
                        => /\ PageNamed(story.pages, "roof_intelligence").blocks = <<"placeholder">>
                           /\ PageNamed(story.pages, "layout_concept").blocks = <<"placeholder">>

\* the tier above basic and pro
HigherTier(tier) == IF tier = Basic THEN Pro ELSE Premium

Range(q) == {q[i] : i \in 1..Len(q)}

NamesOf(pages) == [i \in 1..Len(pages) |-> pages[i].section]

\* the story of the tier above, built with the same profile
HigherPages == Pages(HigherTier(story.tier), p, FALSE, FALSE)

RECURSIVE IsSubsequence(_, _)
\* every element of a is met in b, in the order of a
IsSubsequence(a, b) ==
    IF a = <<>> THEN TRUE
    ELSE IF b = <<>> THEN FALSE
    ELSE IF Head(a) = Head(b) THEN IsSubsequence(Tail(a), Tail(b))
    ELSE IsSubsequence(a, Tail(b))

Numbers(pages) == [i \in 1..Len(pages) |-> [section |-> pages[i].section, val |-> pages[i].val]]

\* the build of the story again, on the same global profile, statistics and
\* tier, with the outcome img of the imagery
BuiltAgain(img) == BuildWith(prospect, dstats, story.tier, img)

\* C26: whatever became of the imagery (not attempted, failed, obtained), a
\* build on the same tier, profile and price history gives the same sections
\* in the same order with the same numbers and the same overridden profile;
\* an image is asked for only when the tier is premium.
C26_ImageryKeepsNumbers ==
    StoryBuilt
        => /\ \A img \in {"none", "error", "image"} :
                 /\ Numbers(BuiltAgain(img).story.pages) = Numbers(story.pages)
                 /\ BuiltAgain(img).p = p
           /\ story.fetched # "none" => story.tier = Premium

\* a premium report built with the image obtained: the roof page and the
\* layout page hold it, and the layout page counts 510 panels
C26_Witness ==
    /\ StoryBuilt
    /\ story.tier = Premium
    /\ story.fetched = "image"
    /\ PageNamed(story.pages, "roof_intelligence").image
    /\ PageNamed(story.pages, "layout_concept").blocks = <<"overlay image">>
    /\ PageNamed(story.pages, "layout_concept").val = <<510>>

\* the build that made story', run alone: on the profile the module
\* defines and the history file as it is when the build starts
Alone == BuildWith(PROSPECT, dossier_get_smp_stats(file, DefaultMonths), story'.tier, story'.fetched)

====
